---- MODULE Spec2Model ----
(***************************************************************************)
(* Model of the trafo-matcher design-matching engine:                      *)
(*   backend/app/services/similarity.py   (field scorers, scorer, ranker)  *)
(*   backend/app/models/transformer.py    (TransformerSpecs properties)    *)
(*   backend/app/routers/search.py        (the two search endpoints)       *)
(*   backend/app/services/db_service.py   (the designs table)              *)
(*   backend/app/services/database.py     (the schema of the table)        *)
(*   backend/app/services/excel_parser.py (the workbook parser)            *)
(*   backend/app/routers/webhook.py       (new-design webhook, bulk sync)  *)
(*   backend/scripts/init_database.py     (the init script)                *)
(*                                                                         *)
(* Units.  Python floats are modelled by exact integers:                   *)
(*   - a field score s is held as 10*s            (1.0 -> 10, 0.4 -> 4)    *)
(*   - a weight w is held as 10*w                 (0.9 -> 9)               *)
(*   - total_score is held as 100*total_score, total_weight as 10*weight   *)
(*   - an aggregate score is the exact fraction [num, den]                 *)
(*   - a reported similarity_score (rounded to 4 decimals) is held as      *)
(*     10^4 * similarity_score, min_score as 10^5 * min_score              *)
(* Strings are sequences of one-character strings, so that lower(),        *)
(* strip(), "in" and the regular expressions are computed, not assumed.    *)
(***************************************************************************)
EXTENDS Integers, Sequences, FiniteSets, TLC

(***************************************************************************)
(* Bounds of the model.                                                    *)
(***************************************************************************)
MaxValue == 21          \* numeric arguments of the field scorers: -MaxValue..MaxValue
MaxQueryFields == 3     \* calculate_similarity: a query dict holds at most this many keys
MaxSearchFields == 2    \* searches: a query dict or form holds at most this many keys
MaxCatalog == 2         \* the designs table holds at most this many rows
MaxId == 3              \* catalog operations: AUTOINCREMENT gives out ids 1..MaxId
MaxFiles == 12          \* bulk operations: the directory holds at most this many workbooks

VARIABLES
    called,        \* the operation that completed last ("none" before any call)
    value1,        \* field scorer: first argument (the query value)
    value2,        \* field scorer: second argument (the design value)
    tolerance,     \* calculate_numeric_similarity: tolerance argument, in percent
    score,         \* field scorer: returned score, in tenths
    query_specs,   \* calculate_similarity / find_similar_designs: the query dict
    design_specs,  \* calculate_similarity: the TransformerSpecs scored
    total_score,   \* calculate_similarity: local total_score at return, in hundredths
    total_weight,  \* calculate_similarity: local total_weight at return, in tenths
    final_score,   \* calculate_similarity: returned score, an exact fraction
    match_details, \* calculate_similarity: returned breakdown
    designs,       \* the designs table, in rowid order
    all_designs,   \* find_similar_designs: the catalog sequence it was given
    max_results,   \* find_similar_designs: max_results argument
    min_score,     \* find_similar_designs: min_score argument, in units of 10^-5
    matches,       \* find_similar_designs: the returned list of TransformerMatch
    status,        \* search endpoints: HTTP status of the response (0 = no response)
    design_file,   \* parse_excel_file / handle_new_design: the workbook at file_path
    parsed_specs,  \* parse_excel_file: the returned TransformerSpecs or None
    extracted,     \* parse_excel_file: whether the field extraction was entered
    next_id,       \* the designs table: the id AUTOINCREMENT gives the next new row
    directory,     \* the workbooks under DESIGNS_DIRECTORY, in the order glob lists them
    request,       \* handle_new_design: the request (action, whether the file exists)
    valid_files,   \* bulk operations: the list find_valid_design_files returned
    processed,     \* bulk operations: the files the loop body ran for, in order
    success_count, \* bulk operations: local success_count at the end of the loop
    error_count,   \* bulk operations: local error_count at the end of the loop
    errors,        \* bulk operations: local errors at the end of the loop
    callers,       \* bulk operations running side by side: the locals of each
    response       \* webhook and bulk operations: the returned response

scorerVars == <<value1, value2, tolerance, score, design_specs,
                total_score, total_weight, final_score, match_details>>
rankerVars == <<designs, all_designs, max_results, min_score, matches, status>>
parserVars == <<design_file, parsed_specs, extracted>>
batchVars == <<valid_files, processed, success_count, error_count, errors, callers>>
catalogVars == <<next_id, directory, request, batchVars, response>>
storeVars == <<parserVars, catalogVars>>
vars == <<called, query_specs, scorerVars, rankerVars, storeVars>>

(***************************************************************************)
(* Python values: None, a number, a str.                                   *)
(***************************************************************************)
None == [t |-> "none"]
Num(n) == [t |-> "num", v |-> n]
Str(s) == [t |-> "str", s |-> s]
IsNone(x) == x.t = "none"
IsNum(x) == x.t = "num"
IsStr(x) == x.t = "str"

Abs(n) == IF n < 0 THEN -n ELSE n
Max(a, b) == IF a >= b THEN a ELSE b
Min(a, b) == IF a <= b THEN a ELSE b

(***************************************************************************)
(* str methods and the regular expressions of similarity.py.               *)
(***************************************************************************)
Uppers == <<"A","B","C","D","E","F","G","H","I","J","K","L","M",
            "N","O","P","Q","R","S","T","U","V","W","X","Y","Z">>
Lowers == <<"a","b","c","d","e","f","g","h","i","j","k","l","m",
            "n","o","p","q","r","s","t","u","v","w","x","y","z">>
Digits == <<"0","1","2","3","4","5","6","7","8","9">>

IsUpper(c) == \E i \in 1..Len(Uppers) : Uppers[i] = c
IsLowerAz(c) == \E i \in 1..Len(Lowers) : Lowers[i] = c
IsDigit(c) == \E i \in 1..Len(Digits) : Digits[i] = c
IsSpace(c) == c = " "
IsSign(c) == c = "-" \/ c = "+"
DigitVal(c) == (CHOOSE i \in 1..Len(Digits) : Digits[i] = c) - 1

\* str.lower()
LowerChar(c) == IF IsUpper(c) THEN Lowers[CHOOSE i \in 1..Len(Uppers) : Uppers[i] = c] ELSE c
Lower(s) == [i \in 1..Len(s) |-> LowerChar(s[i])]

\* str.strip()
RECURSIVE LStrip(_)
LStrip(s) == IF s # <<>> /\ IsSpace(Head(s)) THEN LStrip(Tail(s)) ELSE s
RECURSIVE RStrip(_)
RStrip(s) == IF s # <<>> /\ IsSpace(s[Len(s)]) THEN RStrip(SubSeq(s, 1, Len(s) - 1)) ELSE s
Strip(s) == RStrip(LStrip(s))

\* Python's "sub in s" on str
Contains(sub, s) == \E i \in 0..(Len(s) - Len(sub)) : SubSeq(s, i + 1, i + Len(sub)) = sub

\* length of the longest prefix of s made of characters satisfying the class
RECURSIVE LowerRun(_)
LowerRun(s) == IF s # <<>> /\ IsLowerAz(Head(s)) THEN 1 + LowerRun(Tail(s)) ELSE 0
RECURSIVE DigitRun(_)
DigitRun(s) == IF s # <<>> /\ IsDigit(Head(s)) THEN 1 + DigitRun(Tail(s)) ELSE 0

\* re.match(r'^([a-z]+)(\d*)$', s): group(1), or None when s does not match
VectorGroupBase(s) ==
    LET n == LowerRun(s)
        rest == SubSeq(s, n + 1, Len(s))
    IN IF n >= 1 /\ DigitRun(rest) = Len(rest) THEN Str(SubSeq(s, 1, n)) ELSE None

\* int() of a run of decimal digits
RECURSIVE DigitsValue(_)
DigitsValue(s) == IF s = <<>> THEN 0
                  ELSE 10 * DigitsValue(SubSeq(s, 1, Len(s) - 1)) + DigitVal(s[Len(s)])

\* re.search(r'[-+]?\d*\.?\d+', s) on text without decimal separators: the
\* leftmost position holding a digit, or a sign directly followed by a digit
NumberStart(s) ==
    LET starts == { i \in 1..Len(s) :
                      \/ IsDigit(s[i])
                      \/ IsSign(s[i]) /\ i < Len(s) /\ IsDigit(s[i + 1]) }
    IN IF starts = {} THEN 0 ELSE CHOOSE i \in starts : \A j \in starts : i <= j

\* the longest prefix of s made of decimal digits
DigitPrefix(s) == SubSeq(s, 1, DigitRun(s))

\* float(match.group()) of the match that starts at position i of s (0: no match)
NumberAt(s, i) ==
    IF i = 0 THEN None
    ELSE IF s[i] = "-" THEN Num(-DigitsValue(DigitPrefix(SubSeq(s, i + 1, Len(s)))))
    ELSE IF s[i] = "+" THEN Num(DigitsValue(DigitPrefix(SubSeq(s, i + 1, Len(s)))))
    ELSE Num(DigitsValue(DigitPrefix(SubSeq(s, i, Len(s)))))

\* extract_number: float(val) for a number, the first number of a str, else None
extract_number(val) ==
    IF IsNum(val) THEN val
    ELSE IF IsStr(val) THEN NumberAt(val.s, NumberStart(val.s))
    ELSE None

(***************************************************************************)
(* The three field scorers.  Scores are in tenths.                          *)
(***************************************************************************)
\* diff <= pct/100, with diff = abs(v1 - v2) / max(abs(v1), abs(v2))
DiffWithin(v1, v2, pct) == 100 * Abs(v1 - v2) <= pct * Max(Abs(v1), Abs(v2))

\* lines 61-89 on the two extracted numbers: no number, the zero rules, the bands
NumericBand(v1, v2) ==
    IF IsNone(v1) \/ IsNone(v2) THEN 0
    ELSE IF v1.v = 0 /\ v2.v = 0 THEN 10
    ELSE IF v1.v = 0 \/ v2.v = 0 THEN 0
    ELSE IF DiffWithin(v1.v, v2.v, 5) THEN 10
    ELSE IF DiffWithin(v1.v, v2.v, 10) THEN 9
    ELSE IF DiffWithin(v1.v, v2.v, 20) THEN 4
    ELSE 0

\* mutant: a missing value is scored as a mismatch
calculate_numeric_similarity_missing0(val1, val2, tol) ==
    IF IsNone(val1) \/ IsNone(val2) THEN 0
    ELSE NumericBand(extract_number(val1), extract_number(val2))

\* mutant: the band edges are exclusive (diff < 0.05 instead of diff <= 0.05)
DiffBelow(v1, v2, pct) == 100 * Abs(v1 - v2) < pct * Max(Abs(v1), Abs(v2))
NumericBandStrict(v1, v2) ==
    IF IsNone(v1) \/ IsNone(v2) THEN 0
    ELSE IF v1.v = 0 /\ v2.v = 0 THEN 10
    ELSE IF v1.v = 0 \/ v2.v = 0 THEN 0
    ELSE IF DiffBelow(v1.v, v2.v, 5) THEN 10
    ELSE IF DiffBelow(v1.v, v2.v, 10) THEN 9
    ELSE IF DiffBelow(v1.v, v2.v, 20) THEN 4
    ELSE 0
calculate_numeric_similarity_strict(val1, val2, tol) ==
    IF IsNone(val1) \/ IsNone(val2) THEN 5
    ELSE NumericBandStrict(extract_number(val1), extract_number(val2))

\* mutant: the 10%..20% band scores 0.9, which breaks the order of the bands
NumericBandSwapped(v1, v2) ==
    IF IsNone(v1) \/ IsNone(v2) THEN 0
    ELSE IF v1.v = 0 /\ v2.v = 0 THEN 10
    ELSE IF v1.v = 0 \/ v2.v = 0 THEN 0
    ELSE IF DiffWithin(v1.v, v2.v, 5) THEN 10
    ELSE IF DiffWithin(v1.v, v2.v, 10) THEN 4
    ELSE IF DiffWithin(v1.v, v2.v, 20) THEN 9
    ELSE 0
calculate_numeric_similarity_swapped(val1, val2, tol) ==
    IF IsNone(val1) \/ IsNone(val2) THEN 5
    ELSE NumericBandSwapped(extract_number(val1), extract_number(val2))

\* mutant: the bands are scaled by the tolerance (tol, 2 tol and 4 tol percent)
NumericBandTolerant(v1, v2, tol) ==
    IF IsNone(v1) \/ IsNone(v2) THEN 0
    ELSE IF v1.v = 0 /\ v2.v = 0 THEN 10
    ELSE IF v1.v = 0 \/ v2.v = 0 THEN 0
    ELSE IF DiffWithin(v1.v, v2.v, tol) THEN 10
    ELSE IF DiffWithin(v1.v, v2.v, 2 * tol) THEN 9
    ELSE IF DiffWithin(v1.v, v2.v, 4 * tol) THEN 4
    ELSE 0
calculate_numeric_similarity_tolerant(val1, val2, tol) ==
    IF IsNone(val1) \/ IsNone(val2) THEN 5
    ELSE NumericBandTolerant(extract_number(val1), extract_number(val2), tol)

calculate_numeric_similarity(val1, val2, tol) ==
    IF IsNone(val1) \/ IsNone(val2) THEN 5
    ELSE NumericBand(extract_number(val1), extract_number(val2))

\* mutant: a partial match scores 0.6
StringMatch_partial6(v1, v2) ==
    IF v1 = v2 THEN 10
    ELSE IF Contains(v1, v2) \/ Contains(v2, v1) THEN 6
    ELSE 0

\* lines 103-110 on the two normalised strings: exact, partial, no match
StringMatch(v1, v2) ==
    IF v1 = v2 THEN 10
    ELSE IF Contains(v1, v2) \/ Contains(v2, v1) THEN 7
    ELSE 0

\* mutant: a missing value is scored as a mismatch
calculate_string_similarity_missing0(val1, val2) ==
    IF IsNone(val1) \/ IsNone(val2) THEN 0
    ELSE StringMatch(Strip(Lower(val1.s)), Strip(Lower(val2.s)))

calculate_string_similarity(val1, val2) ==
    IF IsNone(val1) \/ IsNone(val2) THEN 5
    ELSE StringMatch(Strip(Lower(val1.s)), Strip(Lower(val2.s)))

\* lines 139-146: both groups match the pattern and their base types are equal
SameBase(match1, match2) == ~IsNone(match1) /\ ~IsNone(match2) /\ match1.s = match2.s

\* lines 128-148 on the two normalised strings
VectorGroupMatch(v1, v2) ==
    IF v1 = v2 THEN 10
    ELSE IF SameBase(VectorGroupBase(v1), VectorGroupBase(v2)) THEN 8
    ELSE 0

\* mutant: the two strings are lower-cased but not trimmed
calculate_vector_group_similarity_nostrip(vg1, vg2) ==
    IF IsNone(vg1) \/ IsNone(vg2) THEN 5
    ELSE VectorGroupMatch(Lower(vg1.s), Lower(vg2.s))

calculate_vector_group_similarity(vg1, vg2) ==
    IF IsNone(vg1) \/ IsNone(vg2) THEN 5
    ELSE VectorGroupMatch(Strip(Lower(vg1.s)), Strip(Lower(vg2.s)))

(***************************************************************************)
(* TransformerSpecs (models/transformer.py): the stored fields the scorer  *)
(* can reach, and the compatibility properties.                            *)
(***************************************************************************)
Slots == <<"input_rating_kva", "input_high_voltage_v", "input_low_voltage_v",
           "input_frequency_hz", "input_no_load_loss_w", "input_load_loss_w",
           "input_impedance_percent", "input_cooling_type", "input_lv_material",
           "input_hv_material", "output_vector_group", "output_core_material",
           "output_no_load_loss_w", "output_load_loss_w", "output_impedance_percent">>
SlotSet == { Slots[i] : i \in 1..Len(Slots) }
SpecsFields == SlotSet \cup {"design_number"}

\* Python truthiness and "a or b"
Truthy(x) ==
    CASE IsNone(x) -> FALSE
      [] IsNum(x) -> x.v # 0
      [] IsStr(x) -> x.s # <<>>
      [] x.t = "int" -> x.v # 0
      [] x.t = "float" -> x.h # 0
      [] OTHER -> TRUE
\* mutant: "a if a is not None else b"
PyOr_none_only(a, b) == IF IsNone(a) THEN b ELSE a
PyOr(a, b) == IF Truthy(a) THEN a ELSE b

\* mutant: the TransformerSpecs model carries a core_material property
GetAttrWithCore(specs, param) ==
    CASE param = "rating_kva" -> specs.input_rating_kva
      [] param = "high_voltage_v" -> specs.input_high_voltage_v
      [] param = "low_voltage_v" -> specs.input_low_voltage_v
      [] param = "vector_group" -> specs.output_vector_group
      [] param = "no_load_loss_w" -> PyOr(specs.output_no_load_loss_w, specs.input_no_load_loss_w)
      [] param = "load_loss_w" -> PyOr(specs.output_load_loss_w, specs.input_load_loss_w)
      [] param = "impedance_percent" -> PyOr(specs.output_impedance_percent, specs.input_impedance_percent)
      [] param = "cooling_type" -> specs.input_cooling_type
      [] param = "frequency_hz" -> specs.input_frequency_hz
      [] param = "hv_material" -> specs.input_hv_material
      [] param = "lv_material" -> specs.input_lv_material
      [] param = "core_material" -> specs.output_core_material
      [] OTHER -> None

\* getattr(design_specs, param, None): the properties of TransformerSpecs;
\* a name that is neither a field nor a property (core_material) gives None
GetAttr(specs, param) ==
    CASE param = "rating_kva" -> specs.input_rating_kva
      [] param = "high_voltage_v" -> specs.input_high_voltage_v
      [] param = "low_voltage_v" -> specs.input_low_voltage_v
      [] param = "vector_group" -> specs.output_vector_group
      [] param = "no_load_loss_w" -> PyOr(specs.output_no_load_loss_w, specs.input_no_load_loss_w)
      [] param = "load_loss_w" -> PyOr(specs.output_load_loss_w, specs.input_load_loss_w)
      [] param = "impedance_percent" -> PyOr(specs.output_impedance_percent, specs.input_impedance_percent)
      [] param = "cooling_type" -> specs.input_cooling_type
      [] param = "frequency_hz" -> specs.input_frequency_hz
      [] param = "hv_material" -> specs.input_hv_material
      [] param = "lv_material" -> specs.input_lv_material
      [] OTHER -> None

(***************************************************************************)
(* SimilarityEngine.calculate_similarity.                                  *)
(***************************************************************************)
\* WEIGHTS, in dict order; weights in tenths
WeightedParams == <<"rating_kva", "high_voltage_v", "low_voltage_v", "vector_group",
                    "no_load_loss_w", "load_loss_w", "impedance_percent", "cooling_type",
                    "frequency_hz", "lv_material", "hv_material", "core_material">>
WeightedParamSet == { WeightedParams[i] : i \in 1..Len(WeightedParams) }
\* mutant: high_voltage_v weighs 0.8
WEIGHTS_hv8 == [p \in WeightedParamSet |->
    CASE p = "rating_kva" -> 10
      [] p = "high_voltage_v" -> 8
      [] p = "low_voltage_v" -> 9
      [] p = "vector_group" -> 8
      [] p = "no_load_loss_w" -> 7
      [] p = "load_loss_w" -> 7
      [] p = "impedance_percent" -> 6
      [] p = "cooling_type" -> 5
      [] p = "frequency_hz" -> 5
      [] p = "lv_material" -> 4
      [] p = "hv_material" -> 4
      [] p = "core_material" -> 3]

WEIGHTS == [p \in WeightedParamSet |->
    CASE p = "rating_kva" -> 10
      [] p = "high_voltage_v" -> 9
      [] p = "low_voltage_v" -> 9
      [] p = "vector_group" -> 8
      [] p = "no_load_loss_w" -> 7
      [] p = "load_loss_w" -> 7
      [] p = "impedance_percent" -> 6
      [] p = "cooling_type" -> 5
      [] p = "frequency_hz" -> 5
      [] p = "lv_material" -> 4
      [] p = "hv_material" -> 4
      [] p = "core_material" -> 3]

\* TOLERANCES.get(param, 0.15), in percent
TOLERANCES(p) ==
    CASE p \in {"rating_kva", "high_voltage_v", "low_voltage_v"} -> 5
      [] p \in {"no_load_loss_w", "load_loss_w"} -> 15
      [] p = "impedance_percent" -> 10
      [] p = "frequency_hz" -> 0
      [] OTHER -> 15

StringParams == {"cooling_type", "lv_material", "hv_material", "core_material",
                 "connection_hv", "connection_lv"}

\* dict.get(key): None for a key the dict does not hold
DictGet(d, k) == IF k \in DOMAIN d THEN d[k] ELSE None

\* mutant: a parameter the record does not hold scores like a mismatch
ParamScore_missing0(param, query_value, design_value) ==
    IF IsNone(design_value) THEN 0
    ELSE IF param = "vector_group"
    THEN calculate_vector_group_similarity(query_value, design_value)
    ELSE IF param \in StringParams
    THEN calculate_string_similarity(query_value, design_value)
    ELSE calculate_numeric_similarity(query_value, design_value, TOLERANCES(param))

\* the score of one parameter, dispatched on its type (lines 176-181)
ParamScore(param, query_value, design_value) ==
    IF param = "vector_group"
    THEN calculate_vector_group_similarity(query_value, design_value)
    ELSE IF param \in StringParams
    THEN calculate_string_similarity(query_value, design_value)
    ELSE calculate_numeric_similarity(query_value, design_value, TOLERANCES(param))

\* lines 183-192: add the weighted score and the weight, record the breakdown
Accumulate(acc, param, query_value, design_value, s) ==
    [total_score |-> acc.total_score + s * WEIGHTS[param],
     total_weight |-> acc.total_weight + WEIGHTS[param],
     match_details |-> [p \in DOMAIN acc.match_details \cup {param} |->
         IF p = param
         THEN [query |-> query_value, design |-> design_value,
               score |-> s, weighted_score |-> s * WEIGHTS[param]]
         ELSE acc.match_details[p]]]

\* mutant: a parameter the query does not hold still counts in the denominator
ScoreParamPenalised(acc, param, query_value, design_value) ==
    IF IsNone(query_value)
    THEN [acc EXCEPT !.total_weight = @ + WEIGHTS[param]]
    ELSE Accumulate(acc, param, query_value, design_value,
                    ParamScore(param, query_value, design_value))
SimilarityStepPenalised(acc, param, query, design) ==
    ScoreParamPenalised(acc, param, DictGet(query, param), GetAttr(design, param))

\* lines 170-192: skip a parameter the query does not hold, else score it
ScoreParam(acc, param, query_value, design_value) ==
    IF IsNone(query_value) THEN acc
    ELSE Accumulate(acc, param, query_value, design_value,
                    ParamScore(param, query_value, design_value))

\* one iteration of "for param, weight in self.WEIGHTS.items()"
SimilarityStep(acc, param, query, design) ==
    ScoreParam(acc, param, DictGet(query, param), GetAttr(design, param))

\* the loop over WEIGHTS.items(); the accumulators after an iteration are bound
\* as one value (through a singleton set) before the next iteration reads them
RECURSIVE SimilarityLoop(_, _, _, _)
SimilarityLoop(acc, i, query, design) ==
    IF i > Len(WeightedParams) THEN acc
    ELSE CHOOSE out \in { SimilarityLoop(next, i + 1, query, design) :
                            next \in { SimilarityStep(acc, WeightedParams[i], query, design) } } : TRUE

\* an exact fraction num/den, den > 0
Frac(n, d) == [num |-> n, den |-> d]
FracEq(a, b) == a.num * b.den = b.num * a.den

\* lines 194-197: the function returns (final_score, match_details); the two
\* accumulators are kept in the result so that the numerator and the denominator
\* can be seen
SimilarityResult(acc) ==
    [final_score |-> IF acc.total_weight > 0
                     THEN Frac(acc.total_score, 10 * acc.total_weight)
                     ELSE Frac(0, 1),
     match_details |-> acc.match_details,
     total_score |-> acc.total_score,
     total_weight |-> acc.total_weight]

calculate_similarity(query, design) ==
    SimilarityResult(SimilarityLoop([total_score |-> 0, total_weight |-> 0, match_details |-> <<>>],
                                    1, query, design))

(***************************************************************************)
(* SimilarityEngine.find_similar_designs.                                  *)
(***************************************************************************)
\* round(score, 4), in units of 10^-4, halves to even
Round4(f) ==
    LET scaled == f.num * 10000
        q == scaled \div f.den
        rem == scaled % f.den
    IN IF 2 * rem > f.den \/ (2 * rem = f.den /\ q % 2 = 1) THEN q + 1 ELSE q

\* score >= min_score, min_score in units of 10^-5
ScoreAtLeast(f, min) == f.num * 100000 >= min * f.den

Unknown == Str(<<"U","n","k","n","o","w","n">>)

\* TransformerMatch(...) of lines 224-230 (file_path is not modelled)
TransformerMatch(design, r) ==
    [design_number |-> PyOr(design.design_number, Unknown),
     similarity_score |-> Round4(r.final_score),
     specs |-> design,
     match_details |-> r.match_details]

\* mutant: a design is kept only if it scores no less than the match before it
AppendIfPassing_no_worse(acc, design, r, min) ==
    IF /\ ScoreAtLeast(r.final_score, min)
       /\ (acc = <<>> \/ Round4(r.final_score) >= acc[Len(acc)].similarity_score)
    THEN Append(acc, TransformerMatch(design, r)) ELSE acc

\* lines 223-230: a design whose score passes the filter is appended
AppendIfPassing(acc, design, r, min) ==
    IF ScoreAtLeast(r.final_score, min) THEN Append(acc, TransformerMatch(design, r)) ELSE acc

\* the loop of lines 220-230
RECURSIVE ScoreDesigns(_, _, _, _, _)
ScoreDesigns(acc, i, query, catalog, min) ==
    IF i > Len(catalog) THEN acc
    ELSE ScoreDesigns(AppendIfPassing(acc, catalog[i], calculate_similarity(query, catalog[i]), min),
                      i + 1, query, catalog, min)

\* mutant: a match is put before the matches of equal score
RECURSIVE InsertDescending_before_equal(_, _)
InsertDescending_before_equal(sorted, m) ==
    IF sorted = <<>> THEN <<m>>
    ELSE IF Head(sorted).similarity_score > m.similarity_score
         THEN <<Head(sorted)>> \o InsertDescending_before_equal(Tail(sorted), m)
         ELSE <<m>> \o sorted

\* list.sort(key=similarity_score, reverse=True): stable, equal keys keep their order
RECURSIVE InsertDescending(_, _)
InsertDescending(sorted, m) ==
    IF sorted = <<>> THEN <<m>>
    ELSE IF Head(sorted).similarity_score >= m.similarity_score
         THEN <<Head(sorted)>> \o InsertDescending(Tail(sorted), m)
         ELSE <<m>> \o sorted
RECURSIVE SortDescending(_, _)
SortDescending(sorted, rest) ==
    IF rest = <<>> THEN sorted
    ELSE CHOOSE out \in { SortDescending(next, Tail(rest)) :
                            next \in { InsertDescending(sorted, Head(rest)) } } : TRUE

\* seq[:k] of a Python list: a negative k counts from the end
SliceTo(seq, k) ==
    IF k >= 0 THEN SubSeq(seq, 1, Min(k, Len(seq)))
    ELSE SubSeq(seq, 1, Max(Len(seq) + k, 0))

\* mutant: the list is truncated before it is sorted
find_similar_designs_truncate_first(query, catalog, max, min) ==
    CHOOSE out \in { SortDescending(<<>>, SliceTo(scored, max)) :
                       scored \in { ScoreDesigns(<<>>, 1, query, catalog, min) } } : TRUE

\* score and filter, sort, truncate; the scored list is bound as one value
find_similar_designs(query, catalog, max, min) ==
    CHOOSE out \in { SliceTo(SortDescending(<<>>, scored), max) :
                       scored \in { ScoreDesigns(<<>>, 1, query, catalog, min) } } : TRUE

\* the default of the min_score parameter, 0.3
DefaultMinScore == 30000

(***************************************************************************)
(* DatabaseService.get_all_designs: SELECT * ... ORDER BY input_rating_kva *)
(* Rows with equal rating come in an order SQL leaves open; NULL is first. *)
(***************************************************************************)
RatingLeq(a, b) ==
    \/ IsNone(a.input_rating_kva)
    \/ ~IsNone(b.input_rating_kva) /\ a.input_rating_kva.v <= b.input_rating_kva.v

Orderings(seq) ==
    { [i \in 1..Len(seq) |-> seq[f[i]]] :
        f \in { f \in [1..Len(seq) -> 1..Len(seq)] :
                  \A i, j \in 1..Len(seq) : i # j => f[i] # f[j] } }

get_all_designs(table) ==
    { c \in Orderings(table) : \A i \in 1..(Len(c) - 1) : RatingLeq(c[i], c[i + 1]) }

(***************************************************************************)
(* ExcelParser (services/excel_parser.py).  A sheet is a grid of cells as   *)
(* pandas reads it with header=None: a sequence of rows of equal length.    *)
(* A cell is NaN (empty), an int, a float or a str.  Floats are held in     *)
(* hundredths; Inf is the float a decimal text too large for a double       *)
(* converts to.                                                             *)
(***************************************************************************)
NaN == [t |-> "nan"]
IntVal(n) == [t |-> "int", v |-> n]
FloatVal(h) == [t |-> "float", h |-> h]
Inf == [t |-> "inf"]
\* an exception leaving the function that was called
Raise == [t |-> "raise"]

\* one unit of text standing for a run of 400 characters "9": float() of it is inf
Nines == "9{400}"
IsDigitUnit(c) == IsDigit(c) \/ c = Nines

\* str(n) of an int
RECURSIVE NatText(_)
NatText(n) == IF n < 10 THEN <<Digits[n + 1]>> ELSE Append(NatText(n \div 10), Digits[(n % 10) + 1])
IntText(n) == IF n < 0 THEN <<"-">> \o NatText(-n) ELSE NatText(n)
\* str(x) of a float with at most two decimals: repr keeps one decimal at least
FloatText(h) ==
    LET a == IF h < 0 THEN -h ELSE h
        frac == IF a % 10 = 0 THEN <<Digits[((a % 100) \div 10) + 1]>>
                ELSE <<Digits[((a % 100) \div 10) + 1], Digits[(a % 10) + 1]>>
    IN (IF h < 0 THEN <<"-">> ELSE <<>>) \o NatText(a \div 100) \o <<".">> \o frac

\* value.replace(",", ".")
ReplaceComma(s) == [i \in 1..Len(s) |-> IF s[i] = "," THEN "." ELSE s[i]]

\* the regular expression [-+]?\d*\.?\d+ of _safe_float: where a match can begin
RECURSIVE DigitUnitRun(_, _)
DigitUnitRun(s, i) == IF i <= Len(s) /\ IsDigitUnit(s[i]) THEN 1 + DigitUnitRun(s, i + 1) ELSE 0
BodyAt(s, i) ==
    /\ i <= Len(s)
    /\ \/ IsDigitUnit(s[i])
       \/ s[i] = "." /\ i + 1 <= Len(s) /\ IsDigitUnit(s[i + 1])
MatchAt(s, i) == BodyAt(s, i) \/ (IsSign(s[i]) /\ BodyAt(s, i + 1))

\* float() of the digits matched: integer part and decimals, in hundredths
FloatOfDigits(negative, whole, decimals) ==
    IF \E k \in 1..Len(whole) : whole[k] = Nines THEN Inf
    ELSE LET d1 == IF Len(decimals) >= 1 /\ decimals[1] # Nines THEN DigitsValue(<<decimals[1]>>)
                   ELSE IF Len(decimals) >= 1 THEN 9 ELSE 0
             d2 == IF Len(decimals) >= 2 /\ decimals[2] # Nines THEN DigitsValue(<<decimals[2]>>)
                   ELSE IF Len(decimals) >= 1 /\ decimals[1] = Nines THEN 9 ELSE 0
             h == 100 * DigitsValue(whole) + 10 * d1 + d2
         IN FloatVal(IF negative THEN -h ELSE h)
\* the match that begins at i: sign, greedy digits, then "." and digits if they follow
FloatOfMatch(s, i, b, n) ==
    LET m == IF b + n + 1 <= Len(s) /\ s[b + n] = "." THEN DigitUnitRun(s, b + n + 1) ELSE 0
    IN FloatOfDigits(s[i] = "-", SubSeq(s, b, b + n - 1), SubSeq(s, b + n + 1, b + n + m))
SearchFloat(s) ==
    IF \A i \in 1..Len(s) : ~MatchAt(s, i) THEN None
    ELSE LET i == CHOOSE i \in 1..Len(s) : MatchAt(s, i) /\ \A j \in 1..(i - 1) : ~MatchAt(s, j)
             b == IF IsSign(s[i]) THEN i + 1 ELSE i
         IN FloatOfMatch(s, i, b, DigitUnitRun(s, b))

\* ExcelParser._safe_float
safe_float(value) ==
    CASE value.t \in {"none", "nan"} -> None
      [] value.t = "str" -> SearchFloat(ReplaceComma(value.s))
      [] value.t = "int" -> FloatVal(100 * value.v)
      [] OTHER -> value

\* int(x) of a float: truncation toward zero; int(inf) raises OverflowError
IntOfFloat(float_val) ==
    CASE float_val = None -> None
      [] float_val = Inf -> Raise
      [] float_val.h < 0 -> IntVal(-((-float_val.h) \div 100))
      [] OTHER -> IntVal(float_val.h \div 100)
\* ExcelParser._safe_int: the int() call stands outside any try
safe_int(value) == IntOfFloat(safe_float(value))

\* ExcelParser._safe_str
safe_str(value) ==
    CASE value.t \in {"none", "nan"} -> None
      [] value.t = "str" -> Str(Strip(value.s))
      [] value.t = "int" -> Str(IntText(value.v))
      [] value.t = "float" -> Str(FloatText(value.h))

\* len(df.columns)
NCols(df) == IF df = <<>> THEN 0 ELSE Len(df[1])

\* the assignments of _parse_input_specs, in order; only_if_not marks one that
\* runs under "if not specs.<field>"
InputStatements == <<
    [field |-> "input_rating_kva", conv |-> "float", col |-> 1, row |-> 0,
     exact_match |-> FALSE, only_if_not |-> FALSE,
     search_text |-> <<"R", "a", "t", "i", "n", "g">>],
    [field |-> "input_onaf_rating_kva", conv |-> "float", col |-> 1, row |-> 0,
     exact_match |-> FALSE, only_if_not |-> FALSE,
     search_text |-> <<"O", "N", "A", "F", " ", "R", "a", "t", "i", "n", "g">>],
    [field |-> "input_high_voltage_v", conv |-> "float", col |-> 1, row |-> 0,
     exact_match |-> TRUE, only_if_not |-> FALSE,
     search_text |-> <<"H", "i", "g", "h", " ", "v", "o", "l", "t", "a", "g", "e">>],
    [field |-> "input_low_voltage_v", conv |-> "float", col |-> 1, row |-> 0,
     exact_match |-> TRUE, only_if_not |-> FALSE,
     search_text |-> <<"L", "o", "w", " ", "v", "o", "l", "t", "a", "g", "e">>],
    [field |-> "input_connection_hv", conv |-> "str", col |-> 1, row |-> 0,
     exact_match |-> FALSE, only_if_not |-> FALSE,
     search_text |-> <<"C", "o", "n", "n", "e", "c", "t", "i", "o", "n", " ", "H", "V">>],
    [field |-> "input_connection_lv", conv |-> "str", col |-> 1, row |-> 0,
     exact_match |-> FALSE, only_if_not |-> FALSE,
     search_text |-> <<"C", "o", "n", "n", "e", "c", "t", "i", "o", "n", " ", "L", "V">>],
    [field |-> "input_frequency_hz", conv |-> "float", col |-> 1, row |-> 0,
     exact_match |-> FALSE, only_if_not |-> FALSE,
     search_text |-> <<"F", "r", "e", "q", "u", "e", "n", "c", "y">>],
    [field |-> "input_no_load_loss_w", conv |-> "float", col |-> 1, row |-> 0,
     exact_match |-> TRUE, only_if_not |-> FALSE,
     search_text |-> <<"N", "o", "-", "l", "o", "a", "d", " ", "l", "o", "s", "s", "e", "s">>],
    [field |-> "input_load_loss_w", conv |-> "float", col |-> 1, row |-> 0,
     exact_match |-> TRUE, only_if_not |-> FALSE,
     search_text |-> <<"L", "o", "a", "d", " ", "l", "o", "s", "s", "e", "s">>],
    [field |-> "input_impedance_percent", conv |-> "float", col |-> 1, row |-> 0,
     exact_match |-> FALSE, only_if_not |-> FALSE,
     search_text |-> <<"U", "c", "c">>],
    [field |-> "input_no_load_current_percent", conv |-> "float", col |-> 1, row |-> 0,
     exact_match |-> FALSE, only_if_not |-> FALSE,
     search_text |-> <<"N", "o", "-", "l", "o", "a", "d", " ", "c", "u", "r", "r", "e", "n", "t">>],
    [field |-> "input_clock_number", conv |-> "int", col |-> 1, row |-> 0,
     exact_match |-> FALSE, only_if_not |-> FALSE,
     search_text |-> <<"C", "l", "o", "c", "k", " ", "n", "u", "m", "b", "e", "r">>],
    [field |-> "input_cooling_type", conv |-> "str", col |-> 0, row |-> 1,
     exact_match |-> FALSE, only_if_not |-> FALSE,
     search_text |-> <<"C", "o", "o", "i", "l", "n", "g", " ", "T", "y", "p", "e">>],
    [field |-> "input_cooling_type", conv |-> "str", col |-> 0, row |-> 1,
     exact_match |-> FALSE, only_if_not |-> TRUE,
     search_text |-> <<"C", "o", "o", "l", "i", "n", "g", " ", "T", "y", "p", "e">>],
    [field |-> "input_lv_material", conv |-> "str", col |-> 1, row |-> 0,
     exact_match |-> FALSE, only_if_not |-> FALSE,
     search_text |-> <<"L", "V", " ", "m", "a", "t", "e", "r", "i", "a", "l">>],
    [field |-> "input_hv_material", conv |-> "str", col |-> 1, row |-> 0,
     exact_match |-> FALSE, only_if_not |-> FALSE,
     search_text |-> <<"H", "V", " ", "m", "a", "t", "e", "r", "i", "a", "l">>],
    [field |-> "input_lv_winding_type", conv |-> "str", col |-> 1, row |-> 0,
     exact_match |-> FALSE, only_if_not |-> FALSE,
     search_text |-> <<"L", "o", "w", " ", "v", "o", "l", "t", "a", "g", "e", " ", "w", "i", "n", "d", "i", "n", "g">>],
    [field |-> "input_hv_wire_type", conv |-> "str", col |-> 1, row |-> 0,
     exact_match |-> FALSE, only_if_not |-> FALSE,
     search_text |-> <<"H", "V", " ", "w", "i", "r", "e", " ", "t", "y", "p", "e">>],
    [field |-> "input_lv_wire_type", conv |-> "str", col |-> 1, row |-> 0,
     exact_match |-> FALSE, only_if_not |-> FALSE,
     search_text |-> <<"L", "V", " ", "w", "i", "r", "e", " ", "t", "y", "p", "e">>],
    [field |-> "input_core_shape", conv |-> "str", col |-> 1, row |-> 0,
     exact_match |-> FALSE, only_if_not |-> FALSE,
     search_text |-> <<"c", "o", "r", "e", " ", "s", "h", "a", "p", "e">>],
    [field |-> "input_ambient_temp_c", conv |-> "float", col |-> 1, row |-> 0,
     exact_match |-> FALSE, only_if_not |-> FALSE,
     search_text |-> <<"A", "m", "b", "i", "e", "n", "t", " ", "t", "e", "m", "p", "e", "r", "a", "t", "u", "r", "e">>],
    [field |-> "input_top_oil_rise_k", conv |-> "float", col |-> 1, row |-> 0,
     exact_match |-> FALSE, only_if_not |-> FALSE,
     search_text |-> <<"T", "o", "p", " ", "o", "i", "l">>],
    [field |-> "input_winding_rise_k", conv |-> "float", col |-> 1, row |-> 0,
     exact_match |-> FALSE, only_if_not |-> FALSE,
     search_text |-> <<"W", "i", "n", "d", "i", "n", "g">>],
    [field |-> "input_hotspot_k", conv |-> "float", col |-> 1, row |-> 0,
     exact_match |-> TRUE, only_if_not |-> FALSE,
     search_text |-> <<"h", "o", "t", "s", "p", "o", "t">>] >>

\* the assignments of _parse_output, in order
OutputStatements == <<
    [field |-> "output_vector_group", conv |-> "str", col |-> 0, row |-> 1,
     exact_match |-> FALSE, only_if_not |-> FALSE,
     search_text |-> <<"C", "o", "n", "n", "e", "c", "t", "i", "o", "n", " ", "s", "y", "m", "b", "o", "l">>],
    [field |-> "output_voltage_lv_v", conv |-> "float", col |-> 1, row |-> 0,
     exact_match |-> FALSE, only_if_not |-> FALSE,
     search_text |-> <<"V", "o", "l", "t", "a", "g", "e", " ", "L", "V">>],
    [field |-> "output_voltage_hv_v", conv |-> "float", col |-> 1, row |-> 0,
     exact_match |-> FALSE, only_if_not |-> FALSE,
     search_text |-> <<"V", "o", "l", "t", "a", "g", "e", " ", "H", "V">>],
    [field |-> "output_core_diameter_mm", conv |-> "float", col |-> 1, row |-> 0,
     exact_match |-> FALSE, only_if_not |-> FALSE,
     search_text |-> <<"C", "o", "r", "e", " ", "d", "i", "a", "m", "e", "t", "e", "r">>],
    [field |-> "output_core_section_cm2", conv |-> "float", col |-> 1, row |-> 0,
     exact_match |-> FALSE, only_if_not |-> FALSE,
     search_text |-> <<"C", "o", "r", "e", " ", "s", "e", "c", "t", "i", "o", "n">>],
    [field |-> "output_core_weight_kg", conv |-> "float", col |-> 1, row |-> 0,
     exact_match |-> FALSE, only_if_not |-> FALSE,
     search_text |-> <<"C", "o", "r", "e", " ", "W", "e", "i", "g", "h", "t">>],
    [field |-> "output_core_material", conv |-> "str", col |-> 1, row |-> 0,
     exact_match |-> FALSE, only_if_not |-> FALSE,
     search_text |-> <<"C", "o", "r", "e", " ", "M", "a", "t", "e", "r", "i", "a", "l">>],
    [field |-> "output_induction_tesla", conv |-> "float", col |-> 1, row |-> 0,
     exact_match |-> FALSE, only_if_not |-> FALSE,
     search_text |-> <<"I", "n", "d", "u", "c", "t", "i", "o", "n">>],
    [field |-> "output_no_load_loss_w", conv |-> "float", col |-> 1, row |-> 0,
     exact_match |-> FALSE, only_if_not |-> FALSE,
     search_text |-> <<"N", "o", " ", "l", "o", "a", "d", " ", "l", "o", "s", "s", "e", "s">>],
    [field |-> "output_no_load_current_percent", conv |-> "float", col |-> 1, row |-> 0,
     exact_match |-> FALSE, only_if_not |-> FALSE,
     search_text |-> <<"N", "o", " ", "l", "o", "a", "d", " ", "c", "u", "r", "r", "e", "n", "t">>],
    [field |-> "output_load_loss_w", conv |-> "float", col |-> 1, row |-> 0,
     exact_match |-> FALSE, only_if_not |-> FALSE,
     search_text |-> <<"t", "o", "t", "a", "l", " ", "l", "o", "a", "d", " ", "l", "o", "s", "s", "e", "s">>],
    [field |-> "output_impedance_percent", conv |-> "float", col |-> 1, row |-> 0,
     exact_match |-> FALSE, only_if_not |-> FALSE,
     search_text |-> <<"I", "m", "p", "e", "d", "a", "n", "c", "e", " ", "U", "c", "c">>],
    [field |-> "output_pei", conv |-> "float", col |-> 1, row |-> 0,
     exact_match |-> FALSE, only_if_not |-> FALSE,
     search_text |-> <<"P", "E", "I">>],
    [field |-> "output_efficiency_percent", conv |-> "float", col |-> 1, row |-> 0,
     exact_match |-> FALSE, only_if_not |-> FALSE,
     search_text |-> <<"e", "f", "f", "i", "c", "i", "e", "n", "c", "y", " ", "a", "t", " ", "1", "0", "0">>],
    [field |-> "output_sound_power_db", conv |-> "float", col |-> 1, row |-> 0,
     exact_match |-> FALSE, only_if_not |-> FALSE,
     search_text |-> <<"S", "o", "u", "n", "d", " ", "P", "o", "w", "e", "r">>],
    [field |-> "output_top_oil_rise_k", conv |-> "float", col |-> 1, row |-> 0,
     exact_match |-> FALSE, only_if_not |-> FALSE,
     search_text |-> <<"T", "o", "p", " ", "o", "i", "l">>],
    [field |-> "output_winding_temp_hv_k", conv |-> "float", col |-> 1, row |-> 0,
     exact_match |-> FALSE, only_if_not |-> FALSE,
     search_text |-> <<"W", "i", "n", "d", "i", "n", "g", " ", "t", "e", "m", "p", " ", "(", "H", "V", ")">>],
    [field |-> "output_winding_temp_hv_k", conv |-> "float", col |-> 1, row |-> 0,
     exact_match |-> FALSE, only_if_not |-> TRUE,
     search_text |-> <<"W", "i", "n", "d", "i", "n", "g", " ", "t", "e", "m", "p", "e", "r", "a", "t", "u", "r", "e", " ", "H", "V">>],
    [field |-> "output_winding_temp_lv_k", conv |-> "float", col |-> 1, row |-> 0,
     exact_match |-> FALSE, only_if_not |-> FALSE,
     search_text |-> <<"W", "i", "n", "d", "i", "n", "g", " ", "t", "e", "m", "p", " ", "(", "L", "V", ")">>],
    [field |-> "output_winding_temp_lv_k", conv |-> "float", col |-> 1, row |-> 0,
     exact_match |-> FALSE, only_if_not |-> TRUE,
     search_text |-> <<"W", "i", "n", "d", "i", "n", "g", " ", "t", "e", "m", "p", "e", "r", "a", "t", "u", "r", "e", " ", "L", "V">>],
    [field |-> "output_hotspot_k", conv |-> "float", col |-> 1, row |-> 0,
     exact_match |-> TRUE, only_if_not |-> FALSE,
     search_text |-> <<"h", "o", "t", "s", "p", "o", "t">>],
    [field |-> "output_weight_lv_kg", conv |-> "float", col |-> 1, row |-> 0,
     exact_match |-> FALSE, only_if_not |-> FALSE,
     search_text |-> <<"W", "e", "i", "g", "h", "t", " ", "L", "V">>],
    [field |-> "output_weight_hv_kg", conv |-> "float", col |-> 1, row |-> 0,
     exact_match |-> FALSE, only_if_not |-> FALSE,
     search_text |-> <<"W", "e", "i", "g", "h", "t", " ", "H", "V">>],
    [field |-> "output_total_weight_kg", conv |-> "float", col |-> 1, row |-> 0,
     exact_match |-> FALSE, only_if_not |-> FALSE,
     search_text |-> <<"T", "o", "t", "a", "l", " ", "(", "k", "g", ")">>],
    [field |-> "output_oil_volume_l", conv |-> "float", col |-> 1, row |-> 0,
     exact_match |-> FALSE, only_if_not |-> FALSE,
     search_text |-> <<"O", "i", "l", " ", "v", "o", "l", "u", "m", "e">>],
    [field |-> "output_tank_length_mm", conv |-> "float", col |-> 1, row |-> 0,
     exact_match |-> FALSE, only_if_not |-> FALSE,
     search_text |-> <<"I", "n", "n", "e", "r", " ", "L", "e", "n", "g", "t", "h">>],
    [field |-> "output_tank_width_mm", conv |-> "float", col |-> 1, row |-> 0,
     exact_match |-> FALSE, only_if_not |-> FALSE,
     search_text |-> <<"I", "n", "n", "e", "r", " ", "W", "i", "d", "h", "t">>],
    [field |-> "output_tank_width_mm", conv |-> "float", col |-> 1, row |-> 0,
     exact_match |-> FALSE, only_if_not |-> TRUE,
     search_text |-> <<"I", "n", "n", "e", "r", " ", "W", "i", "d", "t", "h">>],
    [field |-> "output_tank_height_mm", conv |-> "float", col |-> 1, row |-> 0,
     exact_match |-> FALSE, only_if_not |-> FALSE,
     search_text |-> <<"f", "i", "n", "a", "l", " ", "h", "e", "i", "g", "h", "t">>],
    [field |-> "output_foil_height_mm", conv |-> "float", col |-> 1, row |-> 0,
     exact_match |-> FALSE, only_if_not |-> FALSE,
     search_text |-> <<"F", "o", "i", "l", " ", "H", "e", "i", "g", "h", "t">>],
    [field |-> "output_foil_thickness_mm", conv |-> "float", col |-> 1, row |-> 0,
     exact_match |-> FALSE, only_if_not |-> FALSE,
     search_text |-> <<"F", "o", "i", "l", " ", "T", "h", "i", "c", "k", "n", "e", "s", "s">>],
    [field |-> "output_turns_lv", conv |-> "int", col |-> 1, row |-> 0,
     exact_match |-> FALSE, only_if_not |-> FALSE,
     search_text |-> <<"N", "u", "m", "b", "e", "r", " ", "o", "f", " ", "T", "u", "r", "n", "s", " ", "L", "V">>],
    [field |-> "output_turns_lv", conv |-> "int", col |-> 1, row |-> 0,
     exact_match |-> FALSE, only_if_not |-> TRUE,
     search_text |-> <<"N", "u", "m", "b", "e", "r", " ", "o", "f", " ", "t", "u", "r", "n", "s", " ", "L", "V">>],
    [field |-> "output_turns_hv", conv |-> "int", col |-> 1, row |-> 0,
     exact_match |-> FALSE, only_if_not |-> FALSE,
     search_text |-> <<"N", "u", "m", "b", "e", "r", " ", "o", "f", " ", "t", "u", "r", "n", "s", " ", "H", "V">>],
    [field |-> "output_inner_diameter_lv_mm", conv |-> "float", col |-> 1, row |-> 0,
     exact_match |-> FALSE, only_if_not |-> FALSE,
     search_text |-> <<"I", "n", "n", "e", "r", " ", "d", "i", "a", "m", "e", "t", "e", "r", " ", "L", "V">>],
    [field |-> "output_outer_diameter_lv_mm", conv |-> "float", col |-> 1, row |-> 0,
     exact_match |-> FALSE, only_if_not |-> FALSE,
     search_text |-> <<"O", "u", "t", "e", "r", " ", "d", "i", "a", "m", "e", "t", "e", "r", " ", "L", "V">>],
    [field |-> "output_inner_diameter_hv_mm", conv |-> "float", col |-> 1, row |-> 0,
     exact_match |-> FALSE, only_if_not |-> FALSE,
     search_text |-> <<"I", "n", "n", "e", "r", " ", "d", "i", "a", "m", "e", "t", "e", "r", " ", "H", "V">>],
    [field |-> "output_outer_diameter_hv_mm", conv |-> "float", col |-> 1, row |-> 0,
     exact_match |-> FALSE, only_if_not |-> FALSE,
     search_text |-> <<"O", "u", "t", "e", "r", " ", "d", "i", "a", "m", "e", "t", "e", "r", " ", "H", "V">>],
    [field |-> "output_phase_current_lv_a", conv |-> "float", col |-> 1, row |-> 0,
     exact_match |-> FALSE, only_if_not |-> FALSE,
     search_text |-> <<"P", "h", "a", "s", "e", " ", "c", "u", "r", "r", "e", "n", "t", " ", "L", "V">>],
    [field |-> "output_phase_current_hv_a", conv |-> "float", col |-> 1, row |-> 0,
     exact_match |-> FALSE, only_if_not |-> FALSE,
     search_text |-> <<"P", "h", "a", "s", "e", " ", "c", "u", "r", "r", "e", "n", "t", " ", "H", "V">>],
    [field |-> "output_current_density_lv", conv |-> "float", col |-> 1, row |-> 0,
     exact_match |-> FALSE, only_if_not |-> FALSE,
     search_text |-> <<"C", "u", "r", "r", "e", "n", "t", " ", "d", "e", "n", "s", "i", "t", "y", " ", "L", "V">>],
    [field |-> "output_current_density_hv", conv |-> "float", col |-> 1, row |-> 0,
     exact_match |-> FALSE, only_if_not |-> FALSE,
     search_text |-> <<"C", "u", "r", "r", "e", "n", "t", " ", "d", "e", "n", "s", "i", "t", "y", " ", "H", "V">>],
    [field |-> "output_volts_per_turn", conv |-> "float", col |-> 1, row |-> 0,
     exact_match |-> FALSE, only_if_not |-> FALSE,
     search_text |-> <<"V", "o", "l", "t", "s", " ", "p", "e", "r", " ", "t", "u", "r", "n">>],
    [field |-> "output_cost_dollar", conv |-> "float", col |-> 1, row |-> 0,
     exact_match |-> FALSE, only_if_not |-> FALSE,
     search_text |-> <<"C", "o", "s", "t", " ", "D", "o", "l", "l", "a", "r">>],
    [field |-> "output_cost_dollar", conv |-> "float", col |-> 1, row |-> 0,
     exact_match |-> FALSE, only_if_not |-> TRUE,
     search_text |-> <<"C", "o", "s", "t">>] >>

\* search_lower of _find_cell_value, search_text.lower().strip(), for every label
\* the assignments look up
SearchLower ==
    [search_text \in { InputStatements[k].search_text : k \in 1..Len(InputStatements) }
                     \cup { OutputStatements[k].search_text : k \in 1..Len(OutputStatements) } |->
        Strip(Lower(search_text))]

\* cell_str of _find_cell_value for every cell: cell.lower().strip() of a str
\* cell, None for any other cell
CellStr(cell) == IF IsStr(cell) THEN Str(Strip(Lower(cell.s))) ELSE None
RECURSIVE CellStrRow(_)
CellStrRow(row) == IF row = <<>> THEN <<>> ELSE <<CellStr(Head(row))>> \o CellStrRow(Tail(row))
RECURSIVE CellStrs(_)
CellStrs(df) == IF df = <<>> THEN <<>> ELSE <<CellStrRow(Head(df))>> \o CellStrs(Tail(df))

\* variant: the lookup always tests containment
CellMatches_substring(df, cell_str, i, j, search_lower, offset_col, offset_row, exact_match) ==
    /\ IsStr(cell_str)
    /\ Contains(search_lower, cell_str.s)
    /\ i + offset_row <= Len(df)
    /\ j + offset_col <= NCols(df)
    /\ j + offset_col >= 1
\* the test _find_cell_value applies to the cell at row i, column j (from 1)
CellMatches(df, cell_str, i, j, search_lower, offset_col, offset_row, exact_match) ==
    /\ IsStr(cell_str)
    /\ IF exact_match THEN cell_str.s = search_lower ELSE Contains(search_lower, cell_str.s)
    /\ i + offset_row <= Len(df)
    /\ j + offset_col <= NCols(df)
    /\ j + offset_col >= 1
FirstInRowMajor(df, hits, offset_col, offset_row) ==
    IF hits = {} THEN None
    ELSE LET first == CHOOSE h \in hits : \A g \in hits \ {h} :
                          h[1] < g[1] \/ (h[1] = g[1] /\ h[2] < g[2])
         IN df[first[1] + offset_row][first[2] + offset_col]
\* ExcelParser._find_cell_value: rows then columns; a matching cell whose target
\* lies outside the grid is passed over and the scan goes on.  cell_strs is
\* CellStrs(df), computed once for all the lookups in one sheet.
find_cell_value(df, cell_strs, search_text, offset_col, offset_row, exact_match) ==
    FirstInRowMajor(df,
        { h \in (1..Len(df)) \X (1..NCols(df)) :
            CellMatches(df, cell_strs[h[1]][h[2]], h[1], h[2], SearchLower[search_text],
                        offset_col, offset_row, exact_match) },
        offset_col, offset_row)

\* one assignment: specs.<field> = self._safe_<conv>(self._find_cell_value(df, ...))
Converted(conv, value) ==
    CASE conv = "float" -> safe_float(value)
      [] conv = "int" -> safe_int(value)
      [] conv = "str" -> safe_str(value)
Stored(specs, field, value) == IF value = Raise THEN Raise ELSE [specs EXCEPT ![field] = value]
Assign(specs, st, df, cell_strs) ==
    IF st.only_if_not /\ Truthy(specs[st.field]) THEN specs
    ELSE Stored(specs, st.field,
                Converted(st.conv, find_cell_value(df, cell_strs, st.search_text,
                                                   st.col, st.row, st.exact_match)))

\* the assignments from the k-th on; an exception ends them
RECURSIVE RunStatements(_, _, _, _, _)
RunStatements(specs, statements, k, df, cell_strs) ==
    IF specs = Raise \/ k > Len(statements) THEN specs
    ELSE CHOOSE out \in { RunStatements(next, statements, k + 1, df, cell_strs) :
                            next \in { Assign(specs, statements[k], df, cell_strs) } } : TRUE
ParseSheet(df, specs, statements) ==
    CHOOSE out \in { RunStatements(specs, statements, 1, df, cell_strs) :
                       cell_strs \in { CellStrs(df) } } : TRUE

\* ExcelParser._parse_input_specs and ExcelParser._parse_output
parse_input_specs(df, specs) == ParseSheet(df, specs, InputStatements)
parse_output(df, specs) == ParseSheet(df, specs, OutputStatements)

\* db_service.DESIGN_FIELDS: the fields of TransformerSpecs the parser fills
DESIGN_FIELDS == {
    "input_rating_kva", "input_onaf_rating_kva", "input_high_voltage_v",
    "input_low_voltage_v", "input_connection_hv", "input_connection_lv",
    "input_frequency_hz", "input_no_load_loss_w", "input_load_loss_w",
    "input_impedance_percent", "input_no_load_current_percent", "input_clock_number",
    "input_cooling_type", "input_lv_material", "input_hv_material",
    "input_lv_winding_type", "input_hv_wire_type", "input_lv_wire_type",
    "input_core_shape", "input_ambient_temp_c", "input_top_oil_rise_k",
    "input_winding_rise_k", "input_hotspot_k", "output_vector_group",
    "output_voltage_lv_v", "output_voltage_hv_v", "output_core_diameter_mm",
    "output_core_section_cm2", "output_core_weight_kg", "output_core_material",
    "output_induction_tesla", "output_no_load_loss_w", "output_no_load_current_percent",
    "output_load_loss_w", "output_impedance_percent", "output_pei",
    "output_efficiency_percent", "output_sound_power_db", "output_top_oil_rise_k",
    "output_winding_temp_hv_k", "output_winding_temp_lv_k", "output_hotspot_k",
    "output_weight_lv_kg", "output_weight_hv_kg", "output_total_weight_kg",
    "output_oil_volume_l", "output_tank_length_mm", "output_tank_width_mm",
    "output_tank_height_mm", "output_foil_height_mm", "output_foil_thickness_mm",
    "output_turns_lv", "output_turns_hv", "output_inner_diameter_lv_mm",
    "output_outer_diameter_lv_mm", "output_inner_diameter_hv_mm",
    "output_outer_diameter_hv_mm", "output_phase_current_lv_a",
    "output_phase_current_hv_a", "output_current_density_lv", "output_current_density_hv",
    "output_volts_per_turn", "output_cost_dollar" }

\* TransformerSpecs(file_path=..., design_number=file_path.stem)
NewSpecs(file) ==
    [f \in DESIGN_FIELDS \cup {"design_number", "file_path"} |->
        CASE f = "design_number" -> Str(file.stem)
          [] f = "file_path" -> Str(file.stem \o file.suffix)
          [] OTHER -> None]

RequiredSheets == {"Input specifications", "Output"}
\* variant: only the first sheet is asked for
Extracts_input_only(file) == file.readable /\ "Input specifications" \in file.sheet_names
\* ExcelParser.parse_excel_file: None for an unreadable workbook, a missing sheet
\* or any exception of the extraction
Extracts(file) == file.readable /\ RequiredSheets \subseteq file.sheet_names
ExtractedOrNone(specs) == IF specs = Raise THEN None ELSE specs
parse_excel_file(file) ==
    IF ~Extracts(file) THEN None
    ELSE ExtractedOrNone(parse_output(file.output, parse_input_specs(file.input, NewSpecs(file))))
\* ExcelParser.parse_single_file
parse_single_file(file) == parse_excel_file(file)

(***************************************************************************)
(* SpecScorer: the field scorers and calculate_similarity applied to       *)
(* bounded arguments.                                                      *)
(***************************************************************************)
ScorerStrings == {
    <<"D","y","n","1","1">>, <<"D","y","n","5">>, <<"d","y","n","1","1">>,
    <<" ","D","y","n","1","1"," ">>, <<"Y","y","n","0">>, <<"D","y","n">>,
    <<"O","N","A","N">>, <<"o","n","a","n">>, <<"O","N","A","F">>, <<"O","N">>,
    <<"c","u">>, <<"a","l">>,
    <<"2","0","k","V","A">>, <<"1","9">>, <<"-","5","V">>, <<"k","V","A">>, <<>> }

NumValues == { Num(n) : n \in (-MaxValue)..MaxValue }
StrValues == { Str(s) : s \in ScorerStrings }
ScorerValues == {None} \cup NumValues \cup StrValues
\* the tolerance arguments calculate_similarity passes: TOLERANCES and the 0.15 default
Tolerances == {0, 5, 10, 15}

\* the keys a query dict may hold: the weighted parameters and one that has no weight
QueryKeys == WeightedParamSet \cup {"connection_hv"}

\* two values per query key
QueryValues(k) ==
    CASE k = "rating_kva" -> <<Num(100), Num(90)>>
      [] k = "high_voltage_v" -> <<Num(11000), Num(33000)>>
      [] k = "low_voltage_v" -> <<Num(415), Num(400)>>
      [] k = "vector_group" -> <<Str(<<"D","y","n","1","1">>), Str(<<"D","y","n","5">>)>>
      [] k = "no_load_loss_w" -> <<Num(200), Num(0)>>
      [] k = "load_loss_w" -> <<Num(1250), Num(1400)>>
      [] k = "impedance_percent" -> <<Num(4), Num(5)>>
      [] k = "cooling_type" -> <<Str(<<"O","N","A","N">>), Str(<<"O","N","A","F">>)>>
      [] k = "frequency_hz" -> <<Num(50), Str(<<"6","0","H","z">>)>>
      [] k = "lv_material" -> <<Str(<<"c","u">>), Str(<<"a","l">>)>>
      [] k = "hv_material" -> <<Str(<<"a","l">>), Str(<<"a","l","u">>)>>
      [] k = "core_material" -> <<Str(<<"M","4">>), Str(<<"M","5">>)>>
      [] k = "connection_hv" -> <<Str(<<"S","t","a","r">>), Str(<<"T","r","i">>)>>

\* keys that may also be held with an explicit None
NoneKeys == {"rating_kva", "cooling_type"}

QueriesOver(K) ==
    { [k \in K |-> IF c[k] = 3 THEN None ELSE QueryValues(k)[c[k]]] :
        c \in { c \in [K -> 1..3] : \A k \in K : c[k] = 3 => k \in NoneKeys } }
Queries(n) == UNION { QueriesOver(K) : K \in { K \in SUBSET QueryKeys : Cardinality(K) <= n } }

\* two values per stored field
SlotValues(slot) ==
    CASE slot = "input_rating_kva" -> <<Num(100), Num(90)>>
      [] slot = "input_high_voltage_v" -> <<Num(11000), Num(33000)>>
      [] slot = "input_low_voltage_v" -> <<Num(415), Num(400)>>
      [] slot = "input_frequency_hz" -> <<Num(50), Num(60)>>
      [] slot = "input_no_load_loss_w" -> <<Num(200), Num(0)>>
      [] slot = "input_load_loss_w" -> <<Num(1250), Num(1400)>>
      [] slot = "input_impedance_percent" -> <<Num(4), Num(5)>>
      [] slot = "input_cooling_type" -> <<Str(<<"O","N","A","N">>), Str(<<"O","N","A","F">>)>>
      [] slot = "input_lv_material" -> <<Str(<<"c","u">>), Str(<<"a","l">>)>>
      [] slot = "input_hv_material" -> <<Str(<<"a","l">>), Str(<<"a","l","u">>)>>
      [] slot = "output_vector_group" -> <<Str(<<"D","y","n","1","1">>), Str(<<"D","y","n","5">>)>>
      [] slot = "output_core_material" -> <<Str(<<"M","4">>), Str(<<"M","5">>)>>
      [] slot = "output_no_load_loss_w" -> <<Num(200), Num(0)>>
      [] slot = "output_load_loss_w" -> <<Num(1250), Num(0)>>
      [] slot = "output_impedance_percent" -> <<Num(4), Num(0)>>

SlotIndex(slot) == CHOOSE i \in 1..Len(Slots) : Slots[i] = slot

\* a record whose stored field number i is unset (0), its first value (1) or its
\* second value (2), as the pattern says
MkSpecs(design_number, pattern) ==
    [f \in SpecsFields |->
        IF f = "design_number" THEN design_number
        ELSE LET kind == pattern[SlotIndex(f)]
             IN IF kind = 0 THEN None ELSE SlotValues(f)[kind]]

Uniform(kind) == [i \in 1..Len(Slots) |-> kind]
Rotating(k) == [i \in 1..Len(Slots) |-> (i + k) % 3]
OnlySlots(S) == [i \in 1..Len(Slots) |-> IF Slots[i] \in S THEN 1 ELSE 0]
SpecsPatterns ==
    { Uniform(0), Uniform(1), Uniform(2), Rotating(0), Rotating(1), Rotating(2),
      OnlySlots({"input_rating_kva", "input_high_voltage_v", "input_low_voltage_v"}) }

DesignNumber(i) == Str(<<"T", Digits[i + 1]>>)
SpecsPool == { MkSpecs(DesignNumber(1), p) : p \in SpecsPatterns }

NoParse ==
    /\ parsed_specs = None
    /\ extracted = FALSE

NoBatch ==
    /\ valid_files = <<>>
    /\ processed = <<>>
    /\ success_count = 0
    /\ error_count = 0
    /\ errors = <<>>
    /\ callers = <<>>

NoCatalog ==
    /\ next_id = 1
    /\ directory = <<>>
    /\ request = None
    /\ NoBatch
    /\ response = None

NoStore ==
    /\ design_file = None
    /\ NoParse
    /\ NoCatalog

NoSearch ==
    /\ designs = <<>>
    /\ all_designs = <<>>
    /\ max_results = 0
    /\ min_score = 0
    /\ matches = <<>>
    /\ status = 0

NoCall ==
    /\ called = "none"
    /\ score = 0
    /\ total_score = 0
    /\ total_weight = 0
    /\ final_score = Frac(0, 1)
    /\ match_details = <<>>

InitFieldScorer ==
    /\ NoCall
    /\ value1 \in ScorerValues
    /\ value2 \in ScorerValues
    /\ tolerance \in Tolerances
    /\ query_specs = <<>>
    /\ design_specs = None
    /\ NoSearch
    /\ NoStore

InitSimilarity ==
    /\ NoCall
    /\ value1 = None
    /\ value2 = None
    /\ tolerance = 0
    /\ query_specs \in Queries(MaxQueryFields)
    /\ design_specs \in SpecsPool
    /\ NoSearch
    /\ NoStore

InitScorer == InitFieldScorer \/ InitSimilarity

CallNumericSimilarity ==
    /\ called = "none"
    /\ design_specs = None
    /\ score' = calculate_numeric_similarity(value1, value2, tolerance)
    /\ called' = "calculate_numeric_similarity"
    /\ UNCHANGED <<value1, value2, tolerance, query_specs, design_specs,
                   total_score, total_weight, final_score, match_details, rankerVars, storeVars>>

CallStringSimilarity ==
    /\ called = "none"
    /\ design_specs = None
    /\ ~IsNum(value1) /\ ~IsNum(value2)
    /\ score' = calculate_string_similarity(value1, value2)
    /\ called' = "calculate_string_similarity"
    /\ UNCHANGED <<value1, value2, tolerance, query_specs, design_specs,
                   total_score, total_weight, final_score, match_details, rankerVars, storeVars>>

CallVectorGroupSimilarity ==
    /\ called = "none"
    /\ design_specs = None
    /\ ~IsNum(value1) /\ ~IsNum(value2)
    /\ score' = calculate_vector_group_similarity(value1, value2)
    /\ called' = "calculate_vector_group_similarity"
    /\ UNCHANGED <<value1, value2, tolerance, query_specs, design_specs,
                   total_score, total_weight, final_score, match_details, rankerVars, storeVars>>

CallCalculateSimilarity ==
    /\ called = "none"
    /\ design_specs # None
    /\ \E r \in { calculate_similarity(query_specs, design_specs) } :
          /\ final_score' = r.final_score
          /\ match_details' = r.match_details
          /\ total_score' = r.total_score
          /\ total_weight' = r.total_weight
    /\ called' = "calculate_similarity"
    /\ UNCHANGED <<value1, value2, tolerance, score, query_specs, design_specs, rankerVars, storeVars>>

NextScorer ==
    \/ CallNumericSimilarity
    \/ CallStringSimilarity
    \/ CallVectorGroupSimilarity
    \/ CallCalculateSimilarity

SpecScorer == InitScorer /\ [][NextScorer]_vars

(***************************************************************************)
(* Spec: the designs table and the searches over it.                       *)
(***************************************************************************)
\* stored records carry a rating: the callers of upsert_design check it
StoredPatterns == { Uniform(1), Rotating(0), Rotating(1) }
Tables(n) ==
    UNION { { [i \in 1..len |-> MkSpecs(DesignNumber(i), ps[i])] : ps \in [1..len -> StoredPatterns] } :
            len \in 0..n }

\* what a caller may pass as a value of a key: its first value, None, "" or "null"
EmptyStr == Str(<<>>)
NullStr == Str(<<"n","u","l","l">>)
RawValue(k, c) == CASE c = 1 -> QueryValues(k)[1]
                    [] c = 2 -> None
                    [] c = 3 -> EmptyStr
                    [] c = 4 -> NullStr
JunkKeys == {"cooling_type"}
RawParamsOver(K) ==
    { [k \in K |-> RawValue(k, c[k])] :
        c \in { c \in [K -> 1..4] : \A k \in K : c[k] # 1 => k \in JunkKeys } }
\* the keys the searches of this specification draw from
SearchKeys == {"rating_kva", "high_voltage_v", "vector_group", "no_load_loss_w",
               "cooling_type", "core_material"}
RawParams(n) == UNION { RawParamsOver(K) : K \in { K \in SUBSET SearchKeys : Cardinality(K) <= n } }

\* the query dicts of a direct call: the first value of at most n weighted parameters
SearchQueries(n) ==
    { [k \in K |-> QueryValues(k)[1]] :
        K \in { K \in SUBSET SearchKeys : Cardinality(K) <= n } }

\* the max_results a request model accepts: any int
MaxResultsValues == (-1)..MaxCatalog
\* min_score arguments: no threshold, the default and one with five decimals
MinScores == {0, DefaultMinScore, 52631}

\* FormSearchQuery: its ten Optional fields, and the key each one is copied to
FormFields == {"rating_kva", "high_voltage_v", "low_voltage_v", "vector_group", "cooling_type",
               "hv_material", "lv_material", "impedance_percent",
               "max_no_load_loss_w", "max_load_loss_w"}
FormKey(f) == CASE f = "max_no_load_loss_w" -> "no_load_loss_w"
                [] f = "max_load_loss_w" -> "load_loss_w"
                [] OTHER -> f
\* the form fields the searches of this specification fill in
FilledFormFields == {"rating_kva", "high_voltage_v", "vector_group", "cooling_type",
                     "lv_material", "max_no_load_loss_w"}
Forms(n) ==
    { [f \in FormFields |-> IF f \in K THEN QueryValues(FormKey(f))[1] ELSE None] :
        K \in { K \in SUBSET FilledFormFields : Cardinality(K) <= n } }

\* lines 113-134 of search.py: the fields of the form that are not None
FormParams(form) ==
    LET set == { f \in FormFields : ~IsNone(form[f]) }
    IN [k \in { FormKey(f) : f \in set } |-> form[CHOOSE f \in set : FormKey(f) = k]]

\* lines 54-57 of search.py
FilterParams(raw) ==
    [k \in { k \in DOMAIN raw : ~IsNone(raw[k]) /\ raw[k] # EmptyStr /\ raw[k] # NullStr } |-> raw[k]]

Init ==
    /\ NoCall
    /\ value1 = None
    /\ value2 = None
    /\ tolerance = 0
    /\ design_specs = None
    /\ query_specs = <<>>
    /\ designs \in Tables(MaxCatalog)
    /\ all_designs = <<>>
    /\ max_results = 0
    /\ min_score = 0
    /\ matches = <<>>
    /\ status = 0
    /\ NoStore

\* a direct call of find_similar_designs on the table as it stands
FindSimilarDesigns(query, max, min) ==
    /\ called = "none"
    /\ called' = "find_similar_designs"
    /\ query_specs' = query
    /\ all_designs' = designs
    /\ max_results' = max
    /\ min_score' = min
    /\ matches' = find_similar_designs(query, designs, max, min)
    /\ UNCHANGED <<designs, status, scorerVars, storeVars>>

\* variant: the endpoints without their "if not params" rejection
SearchCatalog_unguarded(name, params, max) ==
    /\ called' = name
    /\ query_specs' = params
    /\ max_results' = max
    /\ \E catalog \in get_all_designs(designs) :
            /\ all_designs' = catalog
            /\ IF catalog = <<>>
               THEN /\ status' = 404
                    /\ UNCHANGED <<min_score, matches>>
               ELSE /\ status' = 200
                    /\ min_score' = DefaultMinScore
                    /\ matches' = find_similar_designs(params, catalog, max, DefaultMinScore)
    /\ UNCHANGED <<designs, scorerVars, storeVars>>

\* the tail both endpoints share: read the catalog, 404 when empty, else search
SearchCatalog(name, params, max) ==
    /\ called' = name
    /\ query_specs' = params
    /\ max_results' = max
    /\ IF params = <<>>
       THEN /\ status' = 400
            /\ UNCHANGED <<all_designs, min_score, matches>>
       ELSE \E catalog \in get_all_designs(designs) :
            /\ all_designs' = catalog
            /\ IF catalog = <<>>
               THEN /\ status' = 404
                    /\ UNCHANGED <<min_score, matches>>
               ELSE /\ status' = 200
                    /\ min_score' = DefaultMinScore
                    /\ matches' = find_similar_designs(params, catalog, max, DefaultMinScore)
    /\ UNCHANGED <<designs, scorerVars, storeVars>>

\* POST /api/search: raw_params is what OllamaService.extract_parameters returned
SearchTransformers(raw_params, max) ==
    /\ called = "none"
    /\ SearchCatalog("search_transformers", FilterParams(raw_params), max)

\* POST /api/search/form
SearchTransformersForm(form, max) ==
    /\ called = "none"
    /\ SearchCatalog("search_transformers_form", FormParams(form), max)

Next ==
    \/ \E query \in SearchQueries(MaxSearchFields), max \in MaxResultsValues, min \in MinScores :
          FindSimilarDesigns(query, max, min)
    \/ \E raw_params \in RawParams(MaxSearchFields), max \in MaxResultsValues :
          SearchTransformers(raw_params, max)
    \/ \E form \in Forms(MaxSearchFields), max \in MaxResultsValues :
          SearchTransformersForm(form, max)

Spec == Init /\ [][Next]_vars

(***************************************************************************)
(* SpecParser: parse_excel_file applied to bounded workbooks.               *)
(***************************************************************************)
\* "Input specifications" sheets of two rows and two columns; the cells are two
\* labels, numbers, texts with and without a number in them, and a number too
\* long for a double
InputGrids ==
    LET cells == { NaN, Str(<<"R", "a", "t", "i", "n", "g">>), Str(<<"C", "l", "o", "c", "k", " ", "n", "u", "m", "b", "e", "r">>),
                   IntVal(100), FloatVal(250), Str(<<"1", ",", "5">>), Str(<<"n", "/", "a">>), Str(<<Nines>>) }
    IN { <<<<a, b>>, <<c, d>>>> : a, b, c, d \in cells }
\* "Output" sheets: an empty one and one with a connection symbol
OutputGrids ==
    { <<>>,
      <<<<Str(<<"C", "o", "n", "n", "e", "c", "t", "i", "o", "n", " ", "s", "y", "m", "b", "o", "l">>), NaN>>,
        <<Str(<<"D", "y", "n", "1", "1">>), NaN>>>> }
\* "Input specifications" sheets for the exact-mode label "Low voltage" and the
\* substring-mode label "Low voltage winding": both labels, a spelling of the
\* first with capitals and blanks around it, two numbers, a text of blanks
VoltageGrids ==
    LET cells == { NaN, Str(<<"L", "o", "w", " ", "v", "o", "l", "t", "a", "g", "e">>),
                   Str(<<"L", "o", "w", " ", "v", "o", "l", "t", "a", "g", "e", " ", "w", "i", "n", "d", "i", "n", "g">>),
                   Str(<<" ", "L", "O", "W", " ", "V", "O", "L", "T", "A", "G", "E", " ">>),
                   IntVal(400), IntVal(230), Str(<<" ", " ">>) }
    IN { <<<<a, b>>, <<c, d>>>> : a, b, c, d \in cells }
\* "Output" sheets for the tank width and its two spellings, "Inner Widht" first
WidthGrids ==
    LET cells == { NaN, Str(<<"I", "n", "n", "e", "r", " ", "W", "i", "d", "h", "t">>),
                   Str(<<"I", "n", "n", "e", "r", " ", "W", "i", "d", "t", "h">>), IntVal(0), IntVal(500) }
    IN { <<<<a, b>>, <<c, d>>>> : a, b, c, d \in cells }
Workbook(stem, readable, sheet_names, input, output) ==
    [stem |-> stem, suffix |-> <<".", "x", "l", "s", "x">>, readable |-> readable,
     sheet_names |-> sheet_names, input |-> input, output |-> output]
\* every grid pair in a workbook with both sheets; one grid pair in workbooks
\* that lack a sheet or cannot be opened
ParserFiles ==
    { Workbook(<<"T", "1">>, TRUE, RequiredSheets, i, o) : i \in InputGrids, o \in OutputGrids }
    \cup { Workbook(<<"T", "1">>, TRUE, RequiredSheets, i, <<>>) : i \in VoltageGrids }
    \cup { Workbook(<<"T", "1">>, TRUE, RequiredSheets, <<>>, o) : o \in WidthGrids }
    \cup { Workbook(<<"T", "1">>, r, n, <<<<Str(<<"R", "a", "t", "i", "n", "g">>), IntVal(100)>>, <<NaN, NaN>>>>, <<>>) :
             r \in BOOLEAN,
             n \in { RequiredSheets, {"Input specifications"}, {"Output"}, {"Sheet1"} } }

InitParser ==
    /\ NoCall
    /\ value1 = None
    /\ value2 = None
    /\ tolerance = 0
    /\ query_specs = <<>>
    /\ design_specs = None
    /\ NoSearch
    /\ design_file \in ParserFiles
    /\ NoParse
    /\ NoCatalog

ParseExcelFile ==
    /\ called = "none"
    /\ called' = "parse_excel_file"
    /\ parsed_specs' = parse_excel_file(design_file)
    /\ extracted' = Extracts(design_file)
    /\ UNCHANGED <<design_file, query_specs, scorerVars, rankerVars, catalogVars>>

NextParser == ParseExcelFile

SpecParser == InitParser /\ [][NextParser]_vars

(***************************************************************************)
(* The catalog: DatabaseService (services/db_service.py) on the designs     *)
(* table (services/database.py), the webhook (routers/webhook.py), the      *)
(* refresh endpoint (routers/search.py) and scripts/init_database.py.       *)
(* A row is a record of id, design_number, file_path and DESIGN_FIELDS;     *)
(* created_at and updated_at are left out.                                  *)
(***************************************************************************)
\* _specs_to_dict and the id column
Row(specs, id) ==
    [f \in DESIGN_FIELDS \cup {"design_number", "file_path", "id"} |->
        IF f = "id" THEN id ELSE specs[f]]

\* variant: the lookup finds nothing
get_design_by_number_none(table, design_number) == None

\* get_design_by_number: a row or None
get_design_by_number(table, design_number) ==
    IF \E i \in DOMAIN table : table[i].design_number = design_number
    THEN table[CHOOSE i \in DOMAIN table : table[i].design_number = design_number]
    ELSE None

\* add_design: INSERT of a design_number the table does not hold (the column is
\* UNIQUE; upsert_design, its only caller, looks the number up first)
add_design(table, id, specs) == Append(table, Row(specs, id))

\* variant: the UPDATE changes no row
update_design_kept(table, design_id, specs) == table

\* update_design: UPDATE ... SET every column of _specs_to_dict WHERE id = ?
update_design(table, design_id, specs) ==
    [i \in DOMAIN table |-> IF table[i].id = design_id THEN Row(specs, design_id) ELSE table[i]]

\* upsert_design: the table, the AUTOINCREMENT counter and the id returned
UpsertOnto(table, id, specs, existing) ==
    IF existing # None
    THEN [designs |-> update_design(table, existing.id, specs), next_id |-> id, id |-> existing.id]
    ELSE [designs |-> add_design(table, id, specs), next_id |-> id + 1, id |-> id]
upsert_design(table, id, specs) ==
    UpsertOnto(table, id, specs, get_design_by_number(table, specs.design_number))

\* delete_design and delete_all_designs
delete_design(table, design_id) == SelectSeq(table, LAMBDA row : row.id # design_id)
delete_all_designs(table) == <<>>

\* variant: any parsed record passes
HasRating_parsed(specs) == specs # None

\* "specs and specs.input_rating_kva"
HasRating(specs) == specs # None /\ Truthy(specs.input_rating_kva)

\* the workbooks of the catalog operations: a design with a rating and a clock
\* number, a revision of it with another rating and no clock number, and
\* workbooks that fail in each way
Content(kind) ==
    LET rating == Str(<<"R", "a", "t", "i", "n", "g">>)
        clock == Str(<<"C", "l", "o", "c", "k", " ", "n", "u", "m", "b", "e", "r">>)
    IN CASE kind = "good" -> <<<<rating, IntVal(100)>>, <<clock, IntVal(5)>>>>
         [] kind = "revised" -> <<<<rating, FloatVal(25050)>>, <<clock, NaN>>>>
         [] kind = "no_rating" -> <<<<rating, NaN>>, <<clock, IntVal(5)>>>>
         [] kind = "zero_rating" -> <<<<rating, IntVal(0)>>, <<clock, IntVal(5)>>>>
         [] kind = "overflow" -> <<<<rating, IntVal(100)>>, <<clock, Str(<<Nines>>)>>>>
         [] OTHER -> <<<<rating, IntVal(100)>>, <<NaN, NaN>>>>
Design(stem, suffix, kind) ==
    [stem |-> stem, suffix |-> suffix, readable |-> kind # "unreadable",
     sheet_names |-> CASE kind = "no_input_sheet" -> {"Output"}
                       [] kind = "no_output_sheet" -> {"Input specifications"}
                       [] OTHER -> RequiredSheets,
     input |-> Content(kind), output |-> <<>>]
FileName(wb) == wb.stem \o wb.suffix
Xlsx == <<".", "x", "l", "s", "x">>
Xlsm == <<".", "x", "l", "s", "m">>
T1 == <<"T", "1">>
T2 == <<"T", "2">>

\* a directory of n workbooks of which only the first has a rating
FailingKinds == <<"no_rating", "zero_rating", "overflow">>
FailingDirectory(n) ==
    [i \in 1..n |-> IF i = 1 THEN Design(T1, Xlsx, "good")
                    ELSE Design(<<"F">> \o NatText(i), Xlsx, FailingKinds[(i % 3) + 1])]
Directories ==
    { <<>>,
      <<Design(T1, Xlsx, "good"), Design(T2, Xlsx, "revised"), Design(<<"T", "3">>, Xlsx, "no_output_sheet")>>,
      <<Design(T1, Xlsx, "good"), Design(T1, Xlsm, "revised")>>,
      FailingDirectory(MaxFiles - 2), FailingDirectory(MaxFiles) }
\* the files a webhook call names
WebhookFiles ==
    { Design(T1, Xlsx, k) : k \in {"good", "revised", "no_rating", "zero_rating", "overflow",
                                   "no_input_sheet", "no_output_sheet", "unreadable"} }
    \cup { Design(T2, <<".", "X", "L", "S", "X">>, "good"), Design(T1, <<".", "t", "x", "t">>, "good") }
\* the requests: add or update of each file, delete of two designs, and an add
\* and a delete that name a file no longer there
WebhookRequests ==
    { [file |-> wb, exists |-> TRUE, action |-> a] : wb \in WebhookFiles, a \in {"add", "update"} }
    \cup { [file |-> Design(stem, Xlsx, "good"), exists |-> e, action |-> "delete"] :
             stem \in {T1, T2}, e \in BOOLEAN }
    \cup { [file |-> Design(T1, Xlsx, "good"), exists |-> FALSE, action |-> "add"] }

\* parse_excel_file of every workbook the catalog operations meet, computed once
ParseOf ==
    [wb \in WebhookFiles \cup UNION { { d[i] : i \in DOMAIN d } : d \in Directories } |->
        parse_excel_file(wb)]

\* routers/webhook.py handle_new_design: table, counter, HTTP status, response
\* and what the parser returned
Answer(table, id, http, success, details, specs, ran) ==
    [designs |-> table, next_id |-> id, status |-> http,
     response |-> IF http = 200 THEN [success |-> success, details |-> details] ELSE None,
     specs |-> specs, extracted |-> ran]
DeleteByNumber(table, id, design) ==
    IF design # None THEN Answer(delete_design(table, design.id), id, 200, TRUE, None, None, FALSE)
    ELSE Answer(table, id, 200, FALSE, None, None, FALSE)
UpsertParsed(table, id, wb, specs, up) ==
    Answer(up.designs, up.next_id, 200, TRUE,
           [id |-> up.id, rating_kva |-> specs.input_rating_kva], specs, Extracts(wb))
AddParsed(table, id, wb, specs) ==
    IF ~HasRating(specs) THEN Answer(table, id, 200, FALSE, None, specs, Extracts(wb))
    ELSE UpsertParsed(table, id, wb, specs, upsert_design(table, id, specs))
handle_new_design(table, id, wb, exists, action) ==
    IF action # "delete" /\ ~exists THEN Answer(table, id, 404, FALSE, None, None, FALSE)
    ELSE IF action # "delete" /\ Lower(wb.suffix) \notin {Xlsx, Xlsm}
    THEN Answer(table, id, 400, FALSE, None, None, FALSE)
    ELSE IF action = "delete" THEN DeleteByNumber(table, id, get_design_by_number(table, Str(wb.stem)))
    ELSE AddParsed(table, id, wb, ParseOf[wb])

\* ExcelParser.find_valid_design_files
find_valid_design_files(dir) == SelectSeq(dir, Extracts)

\* the loop of bulk_sync, refresh_database and the init script: one pass of its
\* body for the file wb, whose parse gave specs
Batch(table, id) ==
    [designs |-> table, next_id |-> id, processed |-> <<>>,
     success_count |-> 0, error_count |-> 0, errors |-> <<>>]
\* variant: a failing file is listed but not counted
Failed_uncounted(acc, wb) ==
    [acc EXCEPT !.processed = Append(@, FileName(wb)),
                !.errors = Append(@, FileName(wb))]
Failed(acc, wb) ==
    [acc EXCEPT !.processed = Append(@, FileName(wb)),
                !.errors = Append(@, FileName(wb)),
                !.error_count = @ + 1]
Succeeded(acc, wb, up) ==
    [acc EXCEPT !.designs = up.designs, !.next_id = up.next_id,
                !.processed = Append(@, FileName(wb)),
                !.success_count = @ + 1]
LoopBody(acc, wb, specs) ==
    IF HasRating(specs) THEN Succeeded(acc, wb, upsert_design(acc.designs, acc.next_id, specs))
    ELSE Failed(acc, wb)
RECURSIVE ProcessFiles(_, _, _)
ProcessFiles(acc, files, k) ==
    IF k > Len(files) THEN acc
    ELSE CHOOSE out \in { ProcessFiles(next, files, k + 1) :
                            next \in { LoopBody(acc, files[k], ParseOf[files[k]]) } } : TRUE

\* errors[:10]
ErrorList(errs) == SubSeq(errs, 1, Min(10, Len(errs)))
Report(acc, total) ==
    [total_files |-> total, success |-> acc.success_count, errors |-> acc.error_count,
     error_list |-> ErrorList(acc.errors)]

(***************************************************************************)
(* SpecCatalog: webhook calls, bulk syncs, refreshes and init-script runs   *)
(* on a database that starts empty.                                         *)
(***************************************************************************)
InitCatalog ==
    /\ NoCall
    /\ value1 = None
    /\ value2 = None
    /\ tolerance = 0
    /\ query_specs = <<>>
    /\ design_specs = None
    /\ NoSearch
    /\ design_file = None
    /\ NoParse
    /\ next_id = 1
    /\ directory \in Directories
    /\ request = None
    /\ NoBatch
    /\ response = None

searchVars == <<query_specs, scorerVars, all_designs, max_results, min_score, matches>>

\* POST /api/webhook/new-design
HandleNewDesign(wb, exists, action) ==
    \E r \in { handle_new_design(designs, next_id, wb, exists, action) } :
        /\ r.next_id <= MaxId + 1
        /\ called' = "handle_new_design"
        /\ design_file' = wb
        /\ request' = [action |-> action, exists |-> exists]
        /\ designs' = r.designs
        /\ next_id' = r.next_id
        /\ status' = r.status
        /\ response' = r.response
        /\ parsed_specs' = r.specs
        /\ extracted' = r.extracted
        /\ UNCHANGED <<directory, batchVars, searchVars>>

\* the part the three bulk operations share: the loop over valid_files
RunBatch(name, table, files, http) ==
    \E acc \in { ProcessFiles(Batch(table, next_id), files, 1) } :
        /\ acc.next_id <= MaxId + 1
        /\ called' = name
        /\ valid_files' = [k \in DOMAIN files |-> FileName(files[k])]
        /\ designs' = acc.designs
        /\ next_id' = acc.next_id
        /\ processed' = acc.processed
        /\ success_count' = acc.success_count
        /\ error_count' = acc.error_count
        /\ errors' = acc.errors
        /\ status' = http
        /\ response' = Report(acc, Len(files))
        /\ UNCHANGED <<directory, design_file, parsed_specs, extracted, request, searchVars,
                       callers>>
\* an operation that stops before its loop
StopBatch(name, files, http) ==
    /\ called' = name
    /\ valid_files' = [k \in DOMAIN files |-> FileName(files[k])]
    /\ status' = http
    /\ response' = None
    /\ processed' = <<>>
    /\ success_count' = 0
    /\ error_count' = 0
    /\ errors' = <<>>
    /\ UNCHANGED <<designs, next_id, directory, design_file, parsed_specs, extracted,
                   request, searchVars, callers>>

\* POST /api/webhook/bulk-sync
BulkSync == RunBatch("bulk_sync", designs, find_valid_design_files(directory), 200)

\* POST /api/database/refresh: 404 when no file is valid
RefreshDatabase ==
    IF find_valid_design_files(directory) = <<>>
    THEN StopBatch("refresh_database", <<>>, 404)
    ELSE RunBatch("refresh_database", designs, find_valid_design_files(directory), 200)

\* scripts/init_database.py main: exit(1) when no file is valid; --force empties
\* the table first
InitDatabaseScript(force_mode) ==
    IF find_valid_design_files(directory) = <<>>
    THEN StopBatch("init_database", <<>>, 1)
    ELSE RunBatch(IF force_mode THEN "init_database --force" ELSE "init_database",
                  IF force_mode THEN delete_all_designs(designs) ELSE designs,
                  find_valid_design_files(directory), 0)

NextCatalog ==
    \/ \E req \in WebhookRequests : HandleNewDesign(req.file, req.exists, req.action)
    \/ BulkSync
    \/ RefreshDatabase
    \/ \E force_mode \in BOOLEAN : InitDatabaseScript(force_mode)

SpecCatalog == InitCatalog /\ [][NextCatalog]_vars

(***************************************************************************)
(* SpecUpsert: two bulk operations that run side by side on one database   *)
(* (the init script next to the server, or two server processes).  Each    *)
(* statement of db_service opens its own connection and commits, so the    *)
(* SELECT of get_design_by_number and the INSERT or UPDATE that follows it *)
(* are two steps, and the steps of the other caller may come in between.   *)
(***************************************************************************)
Callers == {1, 2}
\* the valid files a caller loops over
CallerFiles ==
    { <<Design(T1, Xlsx, "good")>>,
      <<Design(T1, Xlsx, "revised"), Design(T2, Xlsx, "revised")>>,
      <<Design(T1, Xlsx, "no_rating"), Design(T1, Xlsx, "good")>> }
\* the locals of one caller: where it stands, the file index, the record parsed,
\* what get_design_by_number returned, and the counters of the loop
Caller(files) ==
    [pc |-> "loop", files |-> files, k |-> 1, specs |-> None, existing |-> None,
     success_count |-> 0, error_count |-> 0, errors |-> <<>>]

InitUpsert ==
    /\ NoCall
    /\ value1 = None
    /\ value2 = None
    /\ tolerance = 0
    /\ query_specs = <<>>
    /\ design_specs = None
    /\ NoSearch
    /\ design_file = None
    /\ NoParse
    /\ next_id = 1
    /\ directory = <<>>
    /\ request = None
    /\ valid_files = <<>>
    /\ processed = <<>>
    /\ success_count = 0
    /\ error_count = 0
    /\ errors = <<>>
    /\ callers \in [Callers -> { Caller(files) : files \in CallerFiles }]
    /\ response = None

upsertFrame == <<called, query_specs, scorerVars, all_designs, max_results, min_score, matches,
                 status, parserVars, directory, request, valid_files, processed,
                 success_count, error_count, errors, response>>

\* the else branch and the except branch of the loop body: one more error
CallerFailed(me) ==
    [me EXCEPT !.pc = "loop", !.k = @ + 1, !.specs = None, !.existing = None,
               !.error_count = @ + 1,
               !.errors = Append(@, FileName(me.files[me.k]))]
CallerSucceeded(me) ==
    [me EXCEPT !.pc = "loop", !.k = @ + 1, !.specs = None, !.existing = None,
               !.success_count = @ + 1]

\* the loop body up to the SELECT of upsert_design: parse the file, test the
\* rating, look the design_number up
ParseAndLookup(c) ==
    /\ callers[c].pc = "loop"
    /\ callers[c].k <= Len(callers[c].files)
    /\ \E specs \in { ParseOf[callers[c].files[callers[c].k]] } :
          IF ~HasRating(specs)
          THEN callers' = [callers EXCEPT ![c] = CallerFailed(@)]
          ELSE callers' = [callers EXCEPT ![c] =
                              [@ EXCEPT !.pc = "write", !.specs = specs,
                                        !.existing = get_design_by_number(designs, specs.design_number)]]
    /\ UNCHANGED <<designs, next_id, upsertFrame>>

\* variant: the column carries no UNIQUE constraint
ViolatesUnique_never(table, design_number) == FALSE
\* design_number TEXT UNIQUE NOT NULL: an INSERT of a number the table holds
\* raises sqlite3.IntegrityError
ViolatesUnique(table, design_number) ==
    \E i \in DOMAIN table : table[i].design_number = design_number

\* the rest of upsert_design: UPDATE the row that was found, or INSERT; an
\* exception of the INSERT is caught by the loop body
Write(c) ==
    /\ callers[c].pc = "write"
    /\ IF callers[c].existing # None
       THEN /\ designs' = update_design(designs, callers[c].existing.id, callers[c].specs)
            /\ next_id' = next_id
            /\ callers' = [callers EXCEPT ![c] = CallerSucceeded(@)]
       ELSE IF ViolatesUnique(designs, callers[c].specs.design_number)
       THEN /\ callers' = [callers EXCEPT ![c] = CallerFailed(@)]
            /\ UNCHANGED <<designs, next_id>>
       ELSE /\ designs' = add_design(designs, next_id, callers[c].specs)
            /\ next_id' = next_id + 1
            /\ callers' = [callers EXCEPT ![c] = CallerSucceeded(@)]
    /\ UNCHANGED upsertFrame

NextUpsert ==
    \/ \E c \in Callers : ParseAndLookup(c)
    \/ \E c \in Callers : Write(c)

SpecUpsert == InitUpsert /\ [][NextUpsert]_vars

(***************************************************************************)
(* Properties of find_similar_designs (Spec).                              *)
(***************************************************************************)
\* a search returned a list of matches
Searched == called = "find_similar_designs" \/ status = 200

\* C1: find_similar_designs returns at most max_results matches, for every int
\* max_results the request models accept (a negative max_results allows none).
C1_AtMostMaxResults ==
    Searched => Len(matches) <= Max(max_results, 0)

\* C2: every returned match carries a similarity_score >= min_score, for every
\* min_score.
C2_ReportedScoreAtLeastMinScore ==
    Searched => \A i \in 1..Len(matches) : matches[i].similarity_score * 10 >= min_score

\* the exact score of every record of the catalog the search was given
CatalogScores == [i \in 1..Len(all_designs) |->
                     calculate_similarity(query_specs, all_designs[i]).final_score]
\* the positions of the catalog whose score passes the min_score filter
Passing == { i \in 1..Len(all_designs) : ScoreAtLeast(CatalogScores[i], min_score) }
ReportedScore(i) == Round4(CatalogScores[i])

\* C3: the returned list is ordered by non-increasing similarity_score and holds
\* the max_results highest-scoring records among those passing the filter: every
\* match is a passing record with its own score, no record is returned twice,
\* no passing record left out scores more than a returned one, and
\* min(max_results, number passing) records are returned.
C3_SortedTopMaxResults ==
    Searched =>
        LET scores == CatalogScores
            reported == [i \in 1..Len(all_designs) |-> Round4(scores[i])]
            passing == { i \in 1..Len(all_designs) : ScoreAtLeast(scores[i], min_score) }
            returned == { i \in 1..Len(all_designs) :
                            \E j \in 1..Len(matches) : matches[j].specs = all_designs[i] }
        IN /\ \A i, j \in 1..Len(matches) : i < j =>
                 matches[i].similarity_score >= matches[j].similarity_score
           /\ returned \subseteq passing
           /\ Cardinality(returned) = Len(matches)
           /\ \A j \in 1..Len(matches) : \E i \in passing :
                 /\ matches[j].specs = all_designs[i]
                 /\ matches[j].similarity_score = reported[i]
           /\ \A i \in passing \ returned : \A j \in 1..Len(matches) :
                 matches[j].similarity_score >= reported[i]
           /\ max_results >= 0 => Len(matches) = Min(max_results, Cardinality(passing))

\* two passing records, the second of the catalog scores more and is the one kept
C3_Witness ==
    /\ Searched
    /\ Len(all_designs) = 2
    /\ Passing = {1, 2}
    /\ max_results = 1
    /\ ReportedScore(2) > ReportedScore(1)
    /\ Len(matches) = 1
    /\ matches[1].specs = all_designs[2]

(***************************************************************************)
(* Properties of calculate_similarity (SpecScorer).                        *)
(***************************************************************************)
RECURSIVE WeightSum(_)
WeightSum(P) == IF P = {} THEN 0
                ELSE LET p == CHOOSE p \in P : TRUE IN WEIGHTS[p] + WeightSum(P \ {p})
RECURSIVE WeightedScoreSum(_, _)
WeightedScoreSum(P, md) == IF P = {} THEN 0
                           ELSE LET p == CHOOSE p \in P : TRUE
                                IN WEIGHTS[p] * md[p].score + WeightedScoreSum(P \ {p}, md)

\* the weighted parameters for which the query holds a non-None value
Present(query) == { p \in WeightedParamSet : p \in DOMAIN query /\ ~IsNone(query[p]) }
\* the dict without the key f
Without(query, f) == [k \in DOMAIN query \ {f} |-> query[k]]
Restrict(query, K) == [k \in DOMAIN query \cap K |-> query[k]]

Scored == called = "calculate_similarity"

\* C4: calculate_similarity returns sum(weight x field_score) / sum(weight) over
\* exactly the weighted parameters the query holds with a non-None value; the
\* breakdown has exactly those entries; keys without a weight change nothing; with
\* no such parameter the score is 0.0.
C4_WeightedMeanOverPresent ==
    Scored =>
        LET P == Present(query_specs)
        IN /\ DOMAIN match_details = P
           /\ \A p \in P : /\ match_details[p].query = query_specs[p]
                           /\ match_details[p].weighted_score = WEIGHTS[p] * match_details[p].score
           /\ total_weight = WeightSum(P)
           /\ total_score = WeightedScoreSum(P, match_details)
           /\ IF P = {} THEN final_score = Frac(0, 1)
              ELSE FracEq(final_score, Frac(WeightedScoreSum(P, match_details), 10 * WeightSum(P)))
           /\ calculate_similarity(Restrict(query_specs, WeightedParamSet), design_specs).final_score
                 = final_score

C4_Witness ==
    /\ Scored
    /\ "connection_hv" \in DOMAIN query_specs
    /\ Cardinality(Present(query_specs)) = 2
    /\ total_score > 0
    /\ total_score < 10 * total_weight

\* the value a record stores for a weighted parameter
StoredValue(specs, param) == GetAttrWithCore(specs, param)

\* C5: a query over a non-empty set of weighted parameters, each value equal to
\* the value the record stores for it, scores exactly 1.0.
C5_EqualQueryScoresOne ==
    ( /\ Scored
      /\ DOMAIN query_specs # {}
      /\ DOMAIN query_specs \subseteq WeightedParamSet
      /\ \A k \in DOMAIN query_specs :
            ~IsNone(query_specs[k]) /\ query_specs[k] = StoredValue(design_specs, k) )
    => FracEq(final_score, Frac(1, 1))

\* C6: the query {rating_kva, high_voltage_v, low_voltage_v} against a record
\* holding exactly those three values scores 1.0, with a breakdown of those three
\* parameters and the denominator 1.0 + 0.9 + 0.9.
ThreeParams == {"rating_kva", "high_voltage_v", "low_voltage_v"}
C6_Case ==
    /\ Scored
    /\ DOMAIN query_specs = ThreeParams
    /\ \A k \in ThreeParams : ~IsNone(query_specs[k])
    /\ query_specs["rating_kva"] = design_specs.input_rating_kva
    /\ query_specs["high_voltage_v"] = design_specs.input_high_voltage_v
    /\ query_specs["low_voltage_v"] = design_specs.input_low_voltage_v
    /\ \A f \in SlotSet \ {"input_rating_kva", "input_high_voltage_v", "input_low_voltage_v"} :
          IsNone(design_specs[f])
C6_ThreeFieldQuery ==
    C6_Case => /\ FracEq(final_score, Frac(1, 1))
               /\ DOMAIN match_details = ThreeParams
               /\ total_weight = 28
C6_Witness == C6_Case /\ query_specs["rating_kva"] = Num(100)

\* the cases C7 is about: the query holds f, the record gives the scorer no value
LacksOnRecord(f) ==
    /\ f \in Present(query_specs)
    /\ IsNone(GetAttr(design_specs, f))

\* C7 as claimed: removing from the query a parameter the record lacks never
\* changes the score.
C7_RemovalNeverChangesScore ==
    Scored => \A f \in WeightedParamSet :
        LacksOnRecord(f) =>
            FracEq(final_score, calculate_similarity(Without(query_specs, f), design_specs).final_score)

\* C7 as amended: such a parameter contributes the neutral 0.5: the numerator is
\* the numerator without f plus 0.5 x weight(f), the denominator the denominator
\* without f plus weight(f); the score is unchanged exactly when the score
\* without f is 0.5 over a non-empty rest.
C7_RemovalDropsNeutralHalf ==
    Scored => \A f \in WeightedParamSet :
        LacksOnRecord(f) =>
            LET r == calculate_similarity(Without(query_specs, f), design_specs)
            IN /\ total_score = r.total_score + 5 * WEIGHTS[f]
               /\ total_weight = r.total_weight + WEIGHTS[f]
               /\ FracEq(final_score, r.final_score)
                    <=> (r.total_weight > 0 /\ FracEq(r.final_score, Frac(1, 2)))

C7_Witness ==
    /\ Scored
    /\ \E f \in WeightedParamSet :
          /\ LacksOnRecord(f)
          /\ Present(query_specs) # {f}
          /\ ~FracEq(final_score, calculate_similarity(Without(query_specs, f), design_specs).final_score)

(***************************************************************************)
(* Properties of the field scorers (SpecScorer).                           *)
(***************************************************************************)
NumericScored == called = "calculate_numeric_similarity" /\ IsNum(value1) /\ IsNum(value2)

\* C8: for two numbers a and b the numeric score is 1.0 when both are zero, 0.0
\* when exactly one is zero, and otherwise, with d = |a-b| / max(|a|,|b|), 1.0 if
\* d <= 0.05, 0.9 if 0.05 < d <= 0.10, 0.4 if 0.10 < d <= 0.20, 0.0 if d > 0.20.
C8_NumericBands ==
    NumericScored =>
        LET a == value1.v
            b == value2.v
            m == Max(Abs(a), Abs(b))
            d == Abs(a - b)
        IN /\ (a = 0 /\ b = 0) => score = 10
           /\ ((a = 0) # (b = 0)) => score = 0
           /\ (a # 0 /\ b # 0) =>
                 /\ (20 * d <= m) => score = 10
                 /\ (20 * d > m /\ 10 * d <= m) => score = 9
                 /\ (10 * d > m /\ 5 * d <= m) => score = 4
                 /\ (5 * d > m) => score = 0

\* d is exactly 0.10: the edge belongs to the 0.9 band
C8_Witness == NumericScored /\ value1 = Num(10) /\ value2 = Num(9) /\ score = 9

\* C9 as claimed: for every a and every b, b' with |a-b| <= |a-b'| the score of
\* (a, b) is at least the score of (a, b').
C9_MonotonicInAbsoluteDifference ==
    NumericScored =>
        \A b2 \in (-MaxValue)..MaxValue :
            Abs(value1.v - value2.v) <= Abs(value1.v - b2)
                => score >= calculate_numeric_similarity(value1, Num(b2), tolerance)

\* C9 as amended: the same, for b and b' on the same side of a.
C9_MonotonicOnOneSide ==
    NumericScored =>
        \A b2 \in (-MaxValue)..MaxValue :
            ( /\ Abs(value1.v - value2.v) <= Abs(value1.v - b2)
              /\ (value2.v - value1.v) * (b2 - value1.v) >= 0 )
                => score >= calculate_numeric_similarity(value1, Num(b2), tolerance)

\* a design value with a farther value on the same side that scores strictly less
C9_Witness ==
    /\ NumericScored
    /\ value1 = Num(20) /\ value2 = Num(21) /\ score = 10
    /\ calculate_numeric_similarity(value1, Num(value2.v + 1), tolerance) < score

\* C10: a queried parameter whose record value is missing scores exactly 0.5 in
\* the breakdown, whatever its category; and each of the three field scorers
\* returns 0.5 when either argument is None.
FieldScored == called \in {"calculate_numeric_similarity", "calculate_string_similarity",
                           "calculate_vector_group_similarity"}
C10_MissingIsNeutral ==
    /\ Scored => \A p \in DOMAIN match_details :
                    IsNone(match_details[p].design) => match_details[p].score = 5
    /\ Scored => \A p \in Present(query_specs) :
                    IsNone(GetAttr(design_specs, p)) => match_details[p].score = 5
    /\ (FieldScored /\ (IsNone(value1) \/ IsNone(value2))) => score = 5

\* a numeric, a categorical and the vector-group parameter, all missing on the record
C10_Witness ==
    /\ Scored
    /\ DOMAIN query_specs = {"rating_kva", "cooling_type", "vector_group"}
    /\ \A p \in DOMAIN query_specs :
          /\ p \in DOMAIN match_details
          /\ IsNone(match_details[p].design)
          /\ match_details[p].score = 5

(***************************************************************************)
(* Properties of the categorical and vector-group scorers (SpecScorer).    *)
(***************************************************************************)
CategoricalParams == {"cooling_type", "lv_material", "hv_material", "core_material"}

\* what the categorical rule gives for two texts
CategoricalRule(q, d) ==
    LET a == Strip(Lower(q))
        b == Strip(Lower(d))
    IN IF a = b THEN 10 ELSE IF Contains(a, b) \/ Contains(b, a) THEN 7 ELSE 0

\* C11: for each categorical weighted parameter whose query value and stored
\* record value are both present, the field score is 1.0 when the lower-cased,
\* trimmed texts are equal, 0.7 when one contains the other, 0.0 otherwise.
C11_CategoricalFieldScores ==
    Scored => \A p \in CategoricalParams \cap Present(query_specs) :
        ~IsNone(StoredValue(design_specs, p)) =>
            match_details[p].score = CategoricalRule(query_specs[p].s, StoredValue(design_specs, p).s)

VectorGroupScored ==
    called = "calculate_vector_group_similarity" /\ IsStr(value1) /\ IsStr(value2)

\* s is a non-empty run of letters a-z of length n followed only by digits
LettersThenDigits(s, n) ==
    /\ n >= 1 /\ n <= Len(s)
    /\ \A i \in 1..n : IsLowerAz(s[i])
    /\ \A i \in (n + 1)..Len(s) : IsDigit(s[i])

\* both texts are letters then digits, with the same letters
SamePrefix(a, b) ==
    \E n \in 1..Len(a) :
        /\ LettersThenDigits(a, n)
        /\ LettersThenDigits(b, n)
        /\ SubSeq(a, 1, n) = SubSeq(b, 1, n)

VectorGroupRule(a, b) == IF a = b THEN 10 ELSE IF SamePrefix(a, b) THEN 8 ELSE 0

\* C12 as claimed: 1.0 on a case-insensitive exact match, 0.8 on the same
\* alphabetic prefix with different trailing digits, 0.0 in every other case.
C12_VectorGroupCaseInsensitive ==
    VectorGroupScored => score = VectorGroupRule(Lower(value1.s), Lower(value2.s))

\* C12 as amended: the same rule on the texts lower-cased and trimmed of
\* surrounding whitespace; the digits may be absent on either side.
C12_VectorGroupTrimmed ==
    VectorGroupScored => score = VectorGroupRule(Strip(Lower(value1.s)), Strip(Lower(value2.s)))

\* "Dyn11" against "Dyn5" scores exactly 0.8
C12_Witness ==
    /\ VectorGroupScored
    /\ value1 = Str(<<"D","y","n","1","1">>)
    /\ value2 = Str(<<"D","y","n","5">>)
    /\ score = 8

FieldScoreValues == {0, 4, 5, 7, 8, 9, 10}

\* C13: the aggregate score of calculate_similarity lies in [0, 1] and every
\* field score of the breakdown is one of 0.0, 0.4, 0.5, 0.7, 0.8, 0.9, 1.0.
C13_ScoreRange ==
    Scored =>
        /\ final_score.den > 0
        /\ final_score.num >= 0
        /\ final_score.num <= final_score.den
        /\ \A p \in DOMAIN match_details : match_details[p].score \in FieldScoreValues

\* a breakdown holding a partial categorical match and a numeric 0.9
C13_Witness ==
    /\ Scored
    /\ \E p \in DOMAIN match_details : match_details[p].score = 7
    /\ \E p \in DOMAIN match_details : match_details[p].score = 9
    /\ final_score.num < final_score.den

(***************************************************************************)
(* Missing against mismatching values in the ranking (Spec).               *)
(***************************************************************************)
\* what calculate_similarity gives for every record of the catalog searched
CatalogResults == [i \in 1..Len(all_designs) |->
                      calculate_similarity(query_specs, all_designs[i])]

\* record ra has no value for f, record rb has one that scores 0.0, and every
\* other queried parameter scores the same on both
MissingVersusMismatch(ra, rb, f) ==
    /\ f \in DOMAIN ra.match_details
    /\ IsNone(ra.match_details[f].design)
    /\ ~IsNone(rb.match_details[f].design)
    /\ rb.match_details[f].score = 0
    /\ \A p \in DOMAIN ra.match_details \ {f} :
          ra.match_details[p].score = rb.match_details[p].score

\* the positions of the returned list that hold record i of the catalog
PositionsOf(i) == { j \in 1..Len(matches) : matches[j].specs = all_designs[i] }

\* C14: of two records that score alike on every queried parameter but f, where
\* A has no value for f and B has one scoring 0.0, A scores strictly more; when B
\* is returned A is returned before it; and for a query on f alone under the
\* default min_score A passes the filter and B is not returned.
C14_MissingOutranksMismatch ==
    Searched =>
        \A res \in { CatalogResults } :
        \A a, b \in 1..Len(all_designs) : \A f \in DOMAIN query_specs :
            MissingVersusMismatch(res[a], res[b], f) =>
                /\ res[a].final_score.num * res[b].final_score.den
                      > res[b].final_score.num * res[a].final_score.den
                /\ \A i \in PositionsOf(b) : \E j \in PositionsOf(a) : j < i
                /\ (DOMAIN query_specs = {f} /\ min_score = DefaultMinScore) =>
                      /\ ScoreAtLeast(res[a].final_score, min_score)
                      /\ PositionsOf(b) = {}
                      /\ max_results >= Len(all_designs) => PositionsOf(a) # {}

\* B stands before A in the catalog, both are returned, A first; and a search on
\* f alone under the default threshold that returns A and drops B
C14_Witness ==
    /\ Searched
    /\ \E f \in WeightedParamSet :
          /\ DOMAIN query_specs = {f}
          /\ Len(all_designs) = 2
          /\ MissingVersusMismatch(CatalogResults[2], CatalogResults[1], f)
          /\ \/ min_score = 0 /\ PositionsOf(2) = {1} /\ PositionsOf(1) = {2}
             \/ min_score = DefaultMinScore /\ PositionsOf(2) = {1} /\ PositionsOf(1) = {}

(***************************************************************************)
(* The empty query (Spec).                                                 *)
(***************************************************************************)
EndpointCalled == called \in {"search_transformers", "search_transformers_form"}

\* C17: in both search endpoints an empty parameter mapping is answered with
\* 400 and neither the catalog is read (all_designs stays unset) nor the
\* ranker and its scorer run (min_score and matches stay unset); a response
\* for which the catalog was read or the scorer ran has a non-empty mapping.
C17_EmptyQueryRejected ==
    EndpointCalled =>
        /\ query_specs = <<>> =>
               status = 400 /\ all_designs = <<>> /\ matches = <<>> /\ min_score = 0
        /\ status \in {200, 404} => query_specs # <<>>
        /\ (all_designs # <<>> \/ matches # <<>>) => query_specs # <<>>

\* an empty form is rejected although the table holds records
C17_Witness ==
    /\ called = "search_transformers_form"
    /\ query_specs = <<>>
    /\ status = 400
    /\ designs # <<>>

(***************************************************************************)
(* Field extraction (SpecParser).                                          *)
(***************************************************************************)
ParsedFile == called = "parse_excel_file"

\* the value one field gets when only its own assignments run; a conversion
\* that fails leaves it unset
OfField(statements, field) == SelectSeq(statements, LAMBDA st : st.field = field)
InputFields == { InputStatements[k].field : k \in 1..Len(InputStatements) }
FieldAlone(wb, field) ==
    LET out == IF field \in InputFields
               THEN ParseSheet(wb.input, NewSpecs(wb), OfField(InputStatements, field))
               ELSE ParseSheet(wb.output, NewSpecs(wb), OfField(OutputStatements, field))
    IN IF out = Raise THEN None ELSE out[field]

\* C20: for a workbook with both sheets parse_excel_file returns a record, and
\* every field of it holds what its own lookup and conversion give, unset when
\* the label is not found, the target is empty or the text does not convert,
\* whatever happened to the other fields.
C20_EveryFieldExtractedAlone ==
    (ParsedFile /\ Extracts(design_file)) =>
        /\ parsed_specs # None
        /\ \A field \in DESIGN_FIELDS : parsed_specs[field] = FieldAlone(design_file, field)

(***************************************************************************)
(* The catalog (SpecCatalog).                                              *)
(***************************************************************************)
WebhookCalled == called = "handle_new_design"
\* a bulk operation that reached its loop
RanLoop ==
    /\ called \in {"bulk_sync", "refresh_database", "init_database", "init_database --force"}
    /\ response # None
Names(files) == [k \in DOMAIN files |-> FileName(files[k])]
LacksRating(wb) == ParseOf[wb] # None /\ ParseOf[wb].input_rating_kva = None

\* C15: every row of the table has a rating; a webhook call whose file parsed
\* to a record without rating answers failure; a bulk operation lists every
\* valid file whose record has no rating among its errors.
C15_EveryRecordHasRating ==
    /\ \A i \in DOMAIN designs : designs[i].input_rating_kva # None
    /\ (WebhookCalled /\ parsed_specs # None /\ parsed_specs.input_rating_kva = None) =>
           response.success = FALSE
    /\ RanLoop =>
           \A k \in DOMAIN directory :
               (Extracts(directory[k]) /\ LacksRating(directory[k])) =>
                   /\ \E e \in DOMAIN errors : errors[e] = FileName(directory[k])
                   /\ error_count >= 1

\* a file with a clock number and no rating was refused while the table holds rows
C15_Witness ==
    /\ WebhookCalled
    /\ parsed_specs # None
    /\ parsed_specs.input_rating_kva = None
    /\ parsed_specs.input_clock_number = IntVal(5)
    /\ response.success = FALSE
    /\ designs # <<>>

UniqueNumbers(table) ==
    \A i, j \in DOMAIN table : table[i].design_number = table[j].design_number => i = j
\* C16: the table never holds two rows of one design_number; a webhook upsert
\* of a number already stored keeps the row count and the row's id, stores the
\* new field values in that row and leaves the other rows as they were; a bulk
\* operation that does not empty the table keeps every row's id and number.
C16_UpsertKeyedByNumber ==
    [][ /\ UniqueNumbers(designs')
        /\ ( /\ called' = "handle_new_design"
             /\ request'.action # "delete"
             /\ status' = 200
             /\ response'.success
             /\ get_design_by_number(designs, parsed_specs'.design_number) # None ) =>
               /\ Len(designs') = Len(designs)
               /\ next_id' = next_id
               /\ \A i \in DOMAIN designs :
                     designs'[i] = IF designs[i].design_number = parsed_specs'.design_number
                                   THEN Row(parsed_specs', designs[i].id)
                                   ELSE designs[i]
               /\ response'.details.id =
                     get_design_by_number(designs, parsed_specs'.design_number).id
        /\ called' \in {"bulk_sync", "refresh_database", "init_database"} =>
               \A i \in DOMAIN designs :
                   /\ i \in DOMAIN designs'
                   /\ designs'[i].id = designs[i].id
                   /\ designs'[i].design_number = designs[i].design_number ]_vars

\* the revised T1 replaced the stored one: the call returned id 1 although two
\* ids had been given out, and the row of T2 is still there
C16_Witness ==
    /\ WebhookCalled
    /\ response # None
    /\ response.success
    /\ response.details # None
    /\ response.details.id = 1
    /\ next_id = 3
    /\ Len(designs) = 2
    /\ designs[1].input_rating_kva = FloatVal(25050)
    /\ designs[1].input_clock_number = None
    /\ designs[2].design_number = Str(T2)

ValidNames == Names(find_valid_design_files(directory))
FailingNames ==
    Names(SelectSeq(find_valid_design_files(directory), LAMBDA wb : ~HasRating(ParseOf[wb])))
\* C18: a bulk operation runs its loop body once for every valid file, in order;
\* the errors are the failing files, one entry each; the two counts add up to
\* the number of files; the reported list is the first ten errors at most.
C18_BatchProcessesEveryFile ==
    RanLoop =>
        /\ valid_files = ValidNames
        /\ processed = valid_files
        /\ errors = FailingNames
        /\ error_count = Len(errors)
        /\ success_count + error_count = Len(valid_files)
        /\ response.total_files = Len(valid_files)
        /\ response.success = success_count
        /\ response.errors = error_count
        /\ Len(response.error_list) <= 10
        /\ response.error_list = SubSeq(errors, 1, Len(response.error_list))
        /\ Len(errors) <= 10 => response.error_list = errors

\* eleven files failed after one succeeded, and ten errors are reported
C18_Witness ==
    /\ RanLoop
    /\ success_count >= 1
    /\ error_count > 10
    /\ Len(response.error_list) = 10
    /\ processed = valid_files

\* C19: a webhook call for a workbook that opens but lacks a required sheet gets
\* None from the parser, which does not enter the field extraction; the call
\* answers failure and the table and its id counter stay as they were.
C19_MissingSheetRejected ==
    [][ ( /\ called' = "handle_new_design"
          /\ status' = 200
          /\ request'.action # "delete"
          /\ design_file'.readable
          /\ ~(RequiredSheets \subseteq design_file'.sheet_names) ) =>
            /\ parsed_specs' = None
            /\ ~extracted'
            /\ response'.success = FALSE
            /\ designs' = designs
            /\ next_id' = next_id ]_vars

\* a workbook without the "Output" sheet was refused while the table holds rows
C19_Witness ==
    /\ WebhookCalled
    /\ status = 200
    /\ request.action = "add"
    /\ design_file.sheet_names = {"Input specifications"}
    /\ parsed_specs = None
    /\ response.success = FALSE
    /\ designs # <<>>

(***************************************************************************)
(* Label lookup (SpecParser).                                              *)
(***************************************************************************)
LowVoltage == <<"L", "o", "w", " ", "v", "o", "l", "t", "a", "g", "e">>
LowVoltageWinding == <<"L", "o", "w", " ", "v", "o", "l", "t", "a", "g", "e", " ", "w", "i", "n", "d", "i", "n", "g">>
\* the cells of a grid whose trimmed, lower-cased text is one of the texts given
\* and that have a cell to their right
CellsWithRight(df, texts) ==
    { h \in (1..Len(df)) \X (1..NCols(df)) :
        /\ CellStr(df[h[1]][h[2]]) \in { Str(text) : text \in texts }
        /\ h[2] < NCols(df) }
HasCell(df, text) ==
    \E i \in 1..Len(df) : \E j \in 1..NCols(df) : CellStr(df[i][j]) = Str(text)
RowMajorFirst(cells) ==
    CHOOSE h \in cells : \A g \in cells \ {h} : h[1] < g[1] \/ (h[1] = g[1] /\ h[2] < g[2])
RightOf(df, h) == df[h[1]][h[2] + 1]
HasBothVoltageLabels(df) ==
    /\ HasCell(df, SearchLower[LowVoltage])
    /\ HasCell(df, SearchLower[LowVoltageWinding])
SubstringLowVoltage(df) == find_cell_value(df, CellStrs(df), LowVoltage, 1, 0, FALSE)

\* C21: in a grid that holds a "Low voltage winding" cell and a "Low voltage"
\* cell, input_low_voltage_v is the number in the cell to the right of the
\* first cell whose trimmed, lower-cased text equals "low voltage" (unset when
\* no such cell has a right neighbour), never the neighbour of "Low voltage
\* winding"; the same label looked up in substring mode takes the first of
\* both kinds of cell.
C21_ExactModeSkipsLongerLabel ==
    (ParsedFile /\ Extracts(design_file) /\ HasBothVoltageLabels(design_file.input)) =>
        LET df == design_file.input
            exact == CellsWithRight(df, {SearchLower[LowVoltage]})
            either == CellsWithRight(df, {SearchLower[LowVoltage], SearchLower[LowVoltageWinding]})
        IN /\ parsed_specs # None
           /\ parsed_specs.input_low_voltage_v =
                  (IF exact = {} THEN None ELSE safe_float(RightOf(df, RowMajorFirst(exact))))
           /\ SubstringLowVoltage(df) =
                  (IF either = {} THEN None ELSE RightOf(df, RowMajorFirst(either)))
\* the winding label comes first with 400 to its right, the voltage label below
\* it with 230: the field holds 230 and substring mode would have read 400
C21_Witness ==
    /\ ParsedFile
    /\ design_file.input = <<<<Str(LowVoltageWinding), IntVal(400)>>, <<Str(LowVoltage), IntVal(230)>>>>
    /\ parsed_specs # None
    /\ parsed_specs.input_low_voltage_v = FloatVal(23000)
    /\ parsed_specs.input_lv_winding_type = Str(<<"4", "0", "0">>)
    /\ SubstringLowVoltage(design_file.input) = IntVal(400)

\* the cells whose text matches a label, wherever their target lies
LabelCells(df, st) ==
    { h \in (1..Len(df)) \X (1..NCols(df)) :
        LET cell_str == CellStr(df[h[1]][h[2]])
        IN /\ IsStr(cell_str)
           /\ IF st.exact_match THEN cell_str.s = SearchLower[st.search_text]
              ELSE Contains(SearchLower[st.search_text], cell_str.s) }
TargetInside(df, h, st) ==
    /\ h[1] + st.row <= Len(df)
    /\ h[2] + st.col <= NCols(df)
    /\ h[2] + st.col >= 1
\* what a field would hold if only the first matching cell counted
FirstMatchOnly(df, st) ==
    LET cells == LabelCells(df, st)
    IN IF cells = {} THEN None
       ELSE IF ~TargetInside(df, RowMajorFirst(cells), st) THEN None
       ELSE Converted(st.conv, df[RowMajorFirst(cells)[1] + st.row][RowMajorFirst(cells)[2] + st.col])
\* the assignments of fields that have one label only
SingleLabel(statements) ==
    { k \in 1..Len(statements) :
        \A l \in 1..Len(statements) : statements[l].field = statements[k].field => l = k }

\* C22: every field with one label holds the conversion of the cell at its
\* offset from the first cell, in row-major order, that matches the label, and
\* is unset when that target lies outside the grid, whatever cells match later.
C22_FirstMatchDecides ==
    (ParsedFile /\ parsed_specs # None) =>
        /\ \A k \in SingleLabel(InputStatements) :
               parsed_specs[InputStatements[k].field] =
                   FirstMatchOnly(design_file.input, InputStatements[k])
        /\ \A k \in SingleLabel(OutputStatements) :
               parsed_specs[OutputStatements[k].field] =
                   FirstMatchOnly(design_file.output, OutputStatements[k])

(***************************************************************************)
(* Alternate labels and blank texts (SpecParser).                          *)
(***************************************************************************)
\* the first assignments of the fields that have a second label
Primaries(statements) ==
    { k \in 1..Len(statements) :
        /\ ~statements[k].only_if_not
        /\ \E l \in 1..Len(statements) :
               statements[l].field = statements[k].field /\ statements[l].only_if_not }
\* what the lookup of one label gives, converted
LabelValue(df, st) ==
    Converted(st.conv, find_cell_value(df, CellStrs(df), st.search_text, st.col, st.row,
                                       st.exact_match))
PrimaryKept(specs, df, statements) ==
    \A k \in Primaries(statements) :
        LabelValue(df, statements[k]) # None =>
            specs[statements[k].field] = LabelValue(df, statements[k])

\* C23: a field with two labels keeps whatever value its first label gives,
\* the number 0 included; the second label counts only when the first gives
\* no value.
C23_PrimaryValueKept ==
    (ParsedFile /\ parsed_specs # None) =>
        /\ PrimaryKept(parsed_specs, design_file.input, InputStatements)
        /\ PrimaryKept(parsed_specs, design_file.output, OutputStatements)

\* the categorical fields: the ones converted by _safe_str
Categorical(statements) == { statements[k].field : k \in { l \in 1..Len(statements) : statements[l].conv = "str" } }

\* C24: no categorical field of a record holds the empty string; a target cell
\* whose text is empty after trimming leaves the field unset.
C24_BlankTextUnset ==
    (ParsedFile /\ parsed_specs # None) =>
        \A field \in Categorical(InputStatements) \cup Categorical(OutputStatements) :
            parsed_specs[field] # Str(<<>>)

(***************************************************************************)
(* The tolerance argument (SpecScorer).                                    *)
(***************************************************************************)
\* the weighted parameters scored by calculate_numeric_similarity
NumericParams == (DOMAIN WEIGHTS) \ (StringParams \cup {"vector_group"})

Pairs(ms) == { <<ms[i].design_number, ms[i].similarity_score>> : i \in 1..Len(ms) }
\* the records of a catalog at the positions I, in catalog order
Shard(catalog, I) ==
    LET upto[k \in 0..Len(catalog)] ==
            IF k = 0 THEN <<>>
            ELSE IF k \in I THEN Append(upto[k - 1], catalog[k]) ELSE upto[k - 1]
    IN upto[Len(catalog)]
ShardPairs(catalog, I) ==
    Pairs(find_similar_designs(query_specs, Shard(catalog, I), max_results, min_score))

\* C26: with max_results at least the catalog size, the pairs returned on the
\* whole catalog are the union of the pairs returned on the two shards of every
\* split of the catalog, for the same query and min_score.
C26_ShardsUnion ==
    (Searched /\ max_results >= Len(all_designs)) =>
        \A I \in SUBSET (1..Len(all_designs)) :
            Pairs(matches) = ShardPairs(all_designs, I)
                             \cup ShardPairs(all_designs, (1..Len(all_designs)) \ I)
\* two records that both pass with different scores, each alone in its shard
C26_Witness ==
    /\ Searched
    /\ Len(all_designs) = 2
    /\ max_results >= 2
    /\ Len(matches) = 2
    /\ matches[1].similarity_score > matches[2].similarity_score
    /\ Cardinality(ShardPairs(all_designs, {1})) = 1
    /\ Cardinality(ShardPairs(all_designs, {2})) = 1

\* the catalog position of a match: design numbers are unique in a catalog
PositionOf(m) == CHOOSE i \in 1..Len(all_designs) : all_designs[i] = m.specs

\* C27: matches of equal reported score come in catalog order, and a passing
\* record of the same score that was cut off stands later in the catalog than
\* every match returned with that score.
C27_TiesInCatalogOrder ==
    Searched =>
        /\ \A j, k \in 1..Len(matches) :
               (j < k /\ matches[j].similarity_score = matches[k].similarity_score)
                   => PositionOf(matches[j]) < PositionOf(matches[k])
        /\ \A j \in 1..Len(matches) :
               \A i \in Passing :
                   ( /\ ReportedScore(i) = matches[j].similarity_score
                     /\ \A k \in 1..Len(matches) : matches[k].specs # all_designs[i] )
                       => PositionOf(matches[j]) < i
\* two records tie, max_results is 1: the first of the catalog is the one kept
C27_Witness ==
    /\ Searched
    /\ Len(all_designs) = 2
    /\ Passing = {1, 2}
    /\ ReportedScore(1) = ReportedScore(2)
    /\ max_results = 1
    /\ Len(matches) = 1
    /\ matches[1].specs = all_designs[1]

(***************************************************************************)
(* The output-or-input properties (SpecScorer).                            *)
(***************************************************************************)
OutputOrInputParams == {"no_load_loss_w", "load_loss_w", "impedance_percent"}
OutputField(param) ==
    CASE param = "no_load_loss_w" -> "output_no_load_loss_w"
      [] param = "load_loss_w" -> "output_load_loss_w"
      [] param = "impedance_percent" -> "output_impedance_percent"
InputField(param) ==
    CASE param = "no_load_loss_w" -> "input_no_load_loss_w"
      [] param = "load_loss_w" -> "input_load_loss_w"
      [] param = "impedance_percent" -> "input_impedance_percent"
PresentNonZero(x) == ~IsNone(x) /\ x # Num(0)

\* C29: for no-load loss, load loss and impedance the breakdown compares the
\* query with the output value of the record when that is present and not 0,
\* and with the input value otherwise; with an output value of 0 and no input
\* value the parameter scores 0.5.
C29_OutputOrInput ==
    called = "calculate_similarity" =>
        \A param \in OutputOrInputParams \cap DOMAIN match_details :
            LET output == design_specs[OutputField(param)]
                input == design_specs[InputField(param)]
            IN /\ match_details[param].design = (IF PresentNonZero(output) THEN output ELSE input)
               /\ (output = Num(0) /\ IsNone(input)) => match_details[param].score = 5
\* a query for load loss against a record whose output load loss is 0 and whose
\* input load loss is unset: the record value is missing, the score 0.5
C29_Witness ==
    /\ called = "calculate_similarity"
    /\ "load_loss_w" \in DOMAIN match_details
    /\ design_specs.output_load_loss_w = Num(0)
    /\ IsNone(design_specs.input_load_loss_w)
    /\ IsNone(match_details["load_loss_w"].design)
    /\ match_details["load_loss_w"].score = 5

(***************************************************************************)
(* Files of one stem in a bulk operation (SpecCatalog).                    *)
(***************************************************************************)
\* the valid files of the directory whose record has a rating, in loop order
Accepted == SelectSeq(find_valid_design_files(directory), LAMBDA wb : HasRating(ParseOf[wb]))
\* the rows that carry the design_number of one of the files
RowsOf(table, files) ==
    { i \in DOMAIN table : \E k \in DOMAIN files : table[i].design_number = Str(files[k].stem) }
\* the last of the files that has the stem of the k-th
LastOfStem(files, k) ==
    files[CHOOSE l \in DOMAIN files :
              /\ files[l].stem = files[k].stem
              /\ \A n \in DOMAIN files : files[n].stem = files[k].stem => n <= l]
InErrors(wb) == \E e \in DOMAIN errors : errors[e] = FileName(wb)

AboutToInsert(c) == callers[c].pc = "write" /\ callers[c].existing = None
InsertStep(c) == AboutToInsert(c) /\ callers'[c] # callers[c]

\* C28: the table never holds two rows of one design_number.  When a caller
\* that read "absent" comes to its INSERT after the other caller inserted the
\* same number, the INSERT fails: the table and the id counter stay as they
\* are and the caller counts one error and lists the file once; otherwise the
\* INSERT adds one row and counts one success.
C28_RacingInsertsKeepOneRecord ==
    [][ /\ UniqueNumbers(designs')
        /\ \A c \in Callers : InsertStep(c) =>
               IF get_design_by_number(designs, callers[c].specs.design_number) # None
               THEN /\ designs' = designs
                    /\ next_id' = next_id
                    /\ callers'[c].success_count = callers[c].success_count
                    /\ callers'[c].error_count = callers[c].error_count + 1
                    /\ callers'[c].errors =
                           Append(callers[c].errors, FileName(callers[c].files[callers[c].k]))
               ELSE /\ Len(designs') = Len(designs) + 1
                    /\ designs'[Len(designs')] = Row(callers[c].specs, next_id)
                    /\ callers'[c].success_count = callers[c].success_count + 1
                    /\ callers'[c].errors = callers[c].errors ]_vars
\* both callers had the one file T1.xlsx and an empty table: both read "absent",
\* the first INSERT went through and the second caller ended with one error
C28_Witness ==
    /\ callers # <<>>
    /\ \A c \in Callers : Len(callers[c].files) = 1 /\ callers[c].k = 2
    /\ callers[1].success_count = 1 /\ callers[1].errors = <<>>
    /\ callers[2].success_count = 0 /\ callers[2].error_count = 1
    /\ callers[2].errors = <<T1 \o Xlsx>>
    /\ Len(designs) = 1
    /\ designs[1].design_number = Str(T1)

====
